---- MODULE Spec2Model ----
(***************************************************************************)
(* Timeline synchronisation and visual composition engine of               *)
(* youtube-shorts-agents (src/src/video_generator.py).                     *)
(*                                                                         *)
(* Times are Python floats in the source.  They are modelled as exact      *)
(* rationals <<n, d>> (d > 0, lowest terms), so every sum, product,        *)
(* quotient and comparison is the one the source computes, without the     *)
(* rounding of binary floating point.                                      *)
(* Strings are sequences of one-character strings.                         *)
(***************************************************************************)
EXTENDS Integers, Sequences, FiniteSets, TLC

VARIABLES
    text,           \* split_into_phrases: the script handed to the segmenter
    phrases,        \* split_into_phrases: the returned phrase list
    phr_pc,         \* "input" before the call, "split" after it
    sm_segs,        \* _adjust_timing_gaps: the segment list (mutated in place)
    sm_prev,        \* the segment list as it was handed to the last pass
    sm_passes,      \* number of times _adjust_timing_gaps has run on the list
    tm_words,       \* Timing Resolver: result["segments"][*]["words"] of the aligner
    tm_aligner_ok,  \* FALSE when the aligner call raises
    tm_script,      \* content['script']
    tm_audio,       \* total duration of the audio file, seconds
    tm_load_ok,     \* FALSE when librosa.load raises in get_precise_word_timings
    tm_segs,        \* phrase_timings
    tm_strategy,    \* "none", "aligned", "heuristic" or "fallback"
    tm_pc,          \* "input", "resolved", "smoothed"
    vt_images,      \* Visual Timeline Builder: background_images, each with its fate
    vt_picks,       \* the effect random.choice draws for each image
    vt_format,      \* current_format, as set by set_format
    vt_duration,    \* self.DURATION
    vt_entry,       \* "none", "generate_video" or "_create_background_clips"
    vt_clips,       \* the list _create_background_clips returned
    vt_background,  \* the background track: clips with their start times
    vt_pc,          \* "input", "built", "raised"
    rd_pc,          \* generate_video: the step the call has reached
    rd_cb,          \* progress_callback: "none", "two_args" (main.py), "one_arg" (app.py)
    rd_events,      \* the (phase, percentage) calls the progress callback received
    rd_format,      \* current_format, as set by set_format
    rd_script,      \* content['script']
    rd_words,       \* the words the aligner returns
    rd_aligner_ok,  \* FALSE when the aligner call raises
    rd_load_ok,     \* FALSE when librosa.load raises
    rd_images,      \* background_images
    rd_audio,       \* duration of the audio file
    rd_DURATION,    \* self.DURATION
    rd_timings,     \* phrase_timings
    rd_strategy,    \* which strategy produced phrase_timings: "none", "aligned", "heuristic"
    rd_background,  \* background
    rd_text_clips,  \* text_clips
    rd_total,       \* number of frames the encoder writes (bar 't')
    rd_frame,       \* frames written so far
    rd_temp,        \* TRUE while temp-audio.m4a exists
    rd_open,        \* the clips that are open
    rd_result,      \* "none", "paths" (the returned dict) or "raised"
    cc_pc,          \* concurrent requests: the step each request has reached
    cc_format,      \* video_format of each request
    cc_audio,       \* duration of each request's audio file
    cc_current_format,  \* video_generator.current_format (WIDTH, HEIGHT), shared
    cc_DURATION,    \* video_generator.DURATION, shared
    cc_files,       \* the temporary audio files: path -> whose audio it holds
    cc_used,        \* what each request built its video from
    cc_removed,     \* whose audio each request deleted from the temporary directory
    cb_stage,       \* callback comparison: the step the collaborators have reached
    cb_total,       \* number of frames the encoder writes
    cb_frame,       \* frames written so far
    cb_events,      \* per kind of callback: the calls it received
    cb_result,      \* per kind of callback: "none", "paths" or "raised"
    tc_timings,     \* create_text_clip: the phrase_timings handed to the subtitle loop
    tc_made,        \* the clips create_text_clip returned for each timing (<<>> for None)
    tc_text_clips,  \* text_clips after the subtitle loop
    tc_pc,          \* "input" before the loop, "built" after it
    fx_effect,      \* _apply_random_transitions: the effect random.choice drew
    fx_size,        \* (clip.w, clip.h) of the source clip
    fx_duration,    \* duration of the clip, seconds
    fx_t,           \* the time make_frame is called with
    fx_frame,       \* the (resized) image and the crop box of the frame make_frame returned
    fx_pc,          \* "input" before make_frame, "made" after it
    rq_pc,          \* generate_content_video: the statement each request has reached ("none": not yet requested)
    rq_data,        \* request_tracker._requests: status, progress, result, error of each request
    rq_collab,      \* TRUE once a collaborator of the request has failed
    ih_clock,       \* ImageHandler: time.time(), seconds
    ih_last,        \* self.last_request_time
    ih_task,        \* the generate_image tasks of the batch: where each is, when it wakes
    ih_left,        \* prompts not yet handed to a batch
    ih_calls,       \* start and end time of every call of images.generate, in order
    dl_request_id,  \* download_file: request_id of the URL
    dl_content_type, \* content_type of the URL
    dl_filename,    \* filename of the URL, as its components between the slashes
    dl_exists,      \* TRUE when the resolved path is an existing, readable file
    dl_response     \* the status code and, for 200, the path handed to send_file

varsPhr == <<text, phrases, phr_pc>>
varsSm == <<sm_segs, sm_prev, sm_passes>>
varsTm == <<tm_words, tm_aligner_ok, tm_script, tm_audio, tm_load_ok, tm_segs,
            tm_strategy, tm_pc>>

varsVt == <<vt_images, vt_picks, vt_format, vt_duration, vt_entry, vt_clips, vt_background, vt_pc>>

varsRd == <<rd_pc, rd_cb, rd_events, rd_format, rd_script, rd_words, rd_aligner_ok,
            rd_load_ok, rd_images, rd_audio, rd_DURATION, rd_timings, rd_strategy,
            rd_background, rd_text_clips, rd_total, rd_frame, rd_temp, rd_open, rd_result>>

varsCc == <<cc_pc, cc_format, cc_audio, cc_current_format, cc_DURATION, cc_files, cc_used,
            cc_removed>>

varsCb == <<cb_stage, cb_total, cb_frame, cb_events, cb_result>>

varsTc == <<tc_timings, tc_made, tc_text_clips, tc_pc>>

varsFx == <<fx_effect, fx_size, fx_duration, fx_t, fx_frame, fx_pc>>

varsRq == <<rq_pc, rq_data, rq_collab>>

varsIh == <<ih_clock, ih_last, ih_task, ih_left, ih_calls>>

varsDl == <<dl_request_id, dl_content_type, dl_filename, dl_exists, dl_response>>

vars == <<varsPhr, varsSm, varsTm, varsVt, varsRd, varsCc, varsCb, varsTc, varsFx, varsRq, varsIh, varsDl>>

\* what each specification leaves alone
notPhr == <<varsSm, varsTm, varsVt, varsRd, varsCc, varsCb, varsTc, varsFx, varsRq, varsIh, varsDl>>
notSm == <<varsPhr, varsTm, varsVt, varsRd, varsCc, varsCb, varsTc, varsFx, varsRq, varsIh, varsDl>>
notTm == <<varsPhr, varsSm, varsVt, varsRd, varsCc, varsCb, varsTc, varsFx, varsRq, varsIh, varsDl>>
notVt == <<varsPhr, varsSm, varsTm, varsRd, varsCc, varsCb, varsTc, varsFx, varsRq, varsIh, varsDl>>
notRd == <<varsPhr, varsSm, varsTm, varsVt, varsCc, varsCb, varsTc, varsFx, varsRq, varsIh, varsDl>>
notCc == <<varsPhr, varsSm, varsTm, varsVt, varsRd, varsCb, varsTc, varsFx, varsRq, varsIh, varsDl>>
notCb == <<varsPhr, varsSm, varsTm, varsVt, varsRd, varsCc, varsTc, varsFx, varsRq, varsIh, varsDl>>
notTc == <<varsPhr, varsSm, varsTm, varsVt, varsRd, varsCc, varsCb, varsFx, varsRq, varsIh, varsDl>>
notFx == <<varsPhr, varsSm, varsTm, varsVt, varsRd, varsCc, varsCb, varsTc, varsRq, varsIh, varsDl>>
notRq == <<varsPhr, varsSm, varsTm, varsVt, varsRd, varsCc, varsCb, varsTc, varsFx, varsIh, varsDl>>
notIh == <<varsPhr, varsSm, varsTm, varsVt, varsRd, varsCc, varsCb, varsTc, varsFx, varsRq, varsDl>>
notDl == <<varsPhr, varsSm, varsTm, varsVt, varsRd, varsCc, varsCb, varsTc, varsFx, varsRq, varsIh>>

----------------------------------------------------------------------------
(* Exact rational arithmetic standing for Python float arithmetic.         *)

Abs(x) == IF x < 0 THEN -x ELSE x

RECURSIVE GCD(_, _)
GCD(a, b) == IF b = 0 THEN a ELSE GCD(b, a % b)

R(n, d) ==
    LET s == IF d < 0 THEN -1 ELSE 1
        g == GCD(Abs(n), Abs(d))
    IN  <<(s * n) \div g, (s * d) \div g>>

Zero == R(0, 1)

RAdd(x, y) == R(x[1] * y[2] + y[1] * x[2], x[2] * y[2])
RSub(x, y) == R(x[1] * y[2] - y[1] * x[2], x[2] * y[2])
RMul(x, y) == R(x[1] * y[1], x[2] * y[2])
RDiv(x, y) == R(x[1] * y[2], x[2] * y[1])
RLt(x, y)  == x[1] * y[2] < y[1] * x[2]
RLe(x, y)  == x[1] * y[2] <= y[1] * x[2]
RMax(x, y) == IF RLt(x, y) THEN y ELSE x
RMin(x, y) == IF RLt(y, x) THEN y ELSE x
RInt(k)    == R(k, 1)

----------------------------------------------------------------------------
(* String helpers: str.strip, str.split, ' '.join                          *)

Space == " "
SentenceEnd == {".", "!", "?"}
ClauseEnd == {",", ";", ":"}
Punct == SentenceEnd \cup ClauseEnd

RECURSIVE LStrip(_)
LStrip(s) == IF s # <<>> /\ Head(s) = Space THEN LStrip(Tail(s)) ELSE s

RECURSIVE RStrip(_)
RStrip(s) ==
    IF s # <<>> /\ s[Len(s)] = Space THEN RStrip(SubSeq(s, 1, Len(s) - 1)) ELSE s

Strip(s) == RStrip(LStrip(s))

\* s.split(): the maximal runs of non-whitespace characters, in order
RECURSIVE SplitWs(_)
SplitWs(s) ==
    LET t == LStrip(s)
        WordEnd == IF \E i \in 1..Len(t) : t[i] = Space
                   THEN (CHOOSE i \in 1..Len(t) :
                            t[i] = Space /\ \A j \in 1..(i - 1) : t[j] # Space) - 1
                   ELSE Len(t)
    IN  IF t = <<>> THEN <<>>
        ELSE <<SubSeq(t, 1, WordEnd)>> \o SplitWs(SubSeq(t, WordEnd + 1, Len(t)))

\* ' '.join(ws)
RECURSIVE JoinSp(_)
JoinSp(ws) ==
    IF ws = <<>> THEN <<>>
    ELSE IF Len(ws) = 1 THEN ws[1]
    ELSE ws[1] \o <<Space>> \o JoinSp(Tail(ws))

\* ' '.join(s.split())
NormalizeWs(s) == JoinSp(SplitWs(s))

----------------------------------------------------------------------------
(* Values of the variables a specification does not use                    *)

IdlePhr == text = <<>> /\ phrases = <<>> /\ phr_pc = "off"
IdleSm == sm_segs = <<>> /\ sm_prev = <<>> /\ sm_passes = 0
IdleTm ==
    /\ tm_words = <<>> /\ tm_aligner_ok = FALSE /\ tm_script = <<>>
    /\ tm_audio = <<0, 1>> /\ tm_load_ok = FALSE /\ tm_segs = <<>>
    /\ tm_strategy = "none" /\ tm_pc = "off"

IdleVt ==
    /\ vt_images = <<>> /\ vt_picks = <<>> /\ vt_format = "shorts" /\ vt_duration = <<0, 1>>
    /\ vt_entry = "none" /\ vt_clips = <<>> /\ vt_background = <<>> /\ vt_pc = "off"

IdleRd ==
    /\ rd_pc = "off" /\ rd_cb = "none" /\ rd_events = <<>> /\ rd_format = "shorts"
    /\ rd_script = <<>> /\ rd_words = <<>> /\ rd_aligner_ok = FALSE /\ rd_load_ok = FALSE
    /\ rd_images = <<>> /\ rd_audio = <<0, 1>> /\ rd_DURATION = <<>> /\ rd_timings = <<>>
    /\ rd_strategy = "none"
    /\ rd_background = <<>> /\ rd_text_clips = <<>> /\ rd_total = 0 /\ rd_frame = 0
    /\ rd_temp = FALSE /\ rd_open = {} /\ rd_result = "none"

IdleCc ==
    /\ cc_pc = <<>> /\ cc_format = <<>> /\ cc_audio = <<>> /\ cc_current_format = "none"
    /\ cc_DURATION = <<>> /\ cc_files = <<>> /\ cc_used = <<>> /\ cc_removed = <<>>

IdleCb ==
    /\ cb_stage = "off" /\ cb_total = 0 /\ cb_frame = 0 /\ cb_events = <<>> /\ cb_result = <<>>

IdleTc ==
    /\ tc_timings = <<>>
    /\ tc_made = <<>>
    /\ tc_text_clips = <<>>
    /\ tc_pc = "off"

IdleFx ==
    /\ fx_effect = "none"
    /\ fx_size = <<0, 0>>
    /\ fx_duration = <<0, 1>>
    /\ fx_t = <<0, 1>>
    /\ fx_frame = <<>>
    /\ fx_pc = "off"

IdleRq ==
    /\ rq_pc = <<>>
    /\ rq_data = <<>>
    /\ rq_collab = <<>>

IdleIh ==
    /\ ih_clock = 0
    /\ ih_last = 0
    /\ ih_task = <<>>
    /\ ih_left = 0
    /\ ih_calls = <<>>

IdleDl ==
    /\ dl_request_id = <<>>
    /\ dl_content_type = "none"
    /\ dl_filename = <<>>
    /\ dl_exists = FALSE
    /\ dl_response = <<>>

OnlyPhr == IdleSm /\ IdleTm /\ IdleVt /\ IdleRd /\ IdleCc /\ IdleCb /\ IdleTc /\ IdleFx /\ IdleRq /\ IdleIh /\ IdleDl
OnlySm == IdlePhr /\ IdleTm /\ IdleVt /\ IdleRd /\ IdleCc /\ IdleCb /\ IdleTc /\ IdleFx /\ IdleRq /\ IdleIh /\ IdleDl
OnlyTm == IdlePhr /\ IdleSm /\ IdleVt /\ IdleRd /\ IdleCc /\ IdleCb /\ IdleTc /\ IdleFx /\ IdleRq /\ IdleIh /\ IdleDl
OnlyVt == IdlePhr /\ IdleSm /\ IdleTm /\ IdleRd /\ IdleCc /\ IdleCb /\ IdleTc /\ IdleFx /\ IdleRq /\ IdleIh /\ IdleDl
OnlyRd == IdlePhr /\ IdleSm /\ IdleTm /\ IdleVt /\ IdleCc /\ IdleCb /\ IdleTc /\ IdleFx /\ IdleRq /\ IdleIh /\ IdleDl
OnlyCc == IdlePhr /\ IdleSm /\ IdleTm /\ IdleVt /\ IdleRd /\ IdleCb /\ IdleTc /\ IdleFx /\ IdleRq /\ IdleIh /\ IdleDl
OnlyCb == IdlePhr /\ IdleSm /\ IdleTm /\ IdleVt /\ IdleRd /\ IdleCc /\ IdleTc /\ IdleFx /\ IdleRq /\ IdleIh /\ IdleDl
OnlyTc == IdlePhr /\ IdleSm /\ IdleTm /\ IdleVt /\ IdleRd /\ IdleCc /\ IdleCb /\ IdleFx /\ IdleRq /\ IdleIh /\ IdleDl
OnlyFx == IdlePhr /\ IdleSm /\ IdleTm /\ IdleVt /\ IdleRd /\ IdleCc /\ IdleCb /\ IdleTc /\ IdleRq /\ IdleIh /\ IdleDl
OnlyRq == IdlePhr /\ IdleSm /\ IdleTm /\ IdleVt /\ IdleRd /\ IdleCc /\ IdleCb /\ IdleTc /\ IdleFx /\ IdleIh /\ IdleDl
OnlyIh == IdlePhr /\ IdleSm /\ IdleTm /\ IdleVt /\ IdleRd /\ IdleCc /\ IdleCb /\ IdleTc /\ IdleFx /\ IdleRq /\ IdleDl
OnlyDl == IdlePhr /\ IdleSm /\ IdleTm /\ IdleVt /\ IdleRd /\ IdleCc /\ IdleCb /\ IdleTc /\ IdleFx /\ IdleRq /\ IdleIh

----------------------------------------------------------------------------
(* Phrase Segmenter: VideoGenerator.split_into_phrases                     *)

\* re.split(r'([.!?,;:])', text): text pieces and the captured punctuation
\* marks alternate; a text piece may be empty
RECURSIVE ReSplit(_)
ReSplit(s) ==
    IF \E i \in 1..Len(s) : s[i] \in Punct
    THEN LET p == CHOOSE i \in 1..Len(s) :
                      s[i] \in Punct /\ \A j \in 1..(i - 1) : s[j] \notin Punct
         IN  <<SubSeq(s, 1, p - 1), <<s[p]>>>> \o ReSplit(SubSeq(s, p + 1, Len(s)))
    ELSE <<s>>

\* re.match(pattern, item): the item starts with a punctuation mark
MatchesPunct(item) == item # <<>> /\ item[1] \in Punct

\* PhraseStep with the punctuation mark left out of the phrase it terminates
PhraseStepDropsPunct(st, item) ==
    IF Strip(item) = <<>> THEN st
    ELSE IF MatchesPunct(item)
         THEN <<Append(st[1], Strip(st[2])), <<>>>>
         ELSE <<IF st[2] # <<>> THEN Append(st[1], Strip(st[2])) ELSE st[1], item>>

\* one iteration of the loop over the split items; st = <<phrases, current_phrase>>
PhraseStep(st, item) ==
    IF Strip(item) = <<>> THEN st
    ELSE IF MatchesPunct(item)
         THEN <<Append(st[1], Strip(st[2] \o item)), <<>>>>
         ELSE <<IF st[2] # <<>> THEN Append(st[1], Strip(st[2])) ELSE st[1], item>>

RECURSIVE PhraseLoop(_, _)
PhraseLoop(st, items) ==
    IF items = <<>> THEN st ELSE PhraseLoop(PhraseStep(st, Head(items)), Tail(items))

\* [' '.join(p.split()) for p in phrases if p.strip()]
RECURSIVE FilterNormalize(_)
FilterNormalize(ps) ==
    IF ps = <<>> THEN <<>>
    ELSE (IF Strip(Head(ps)) # <<>> THEN <<NormalizeWs(Head(ps))>> ELSE <<>>)
         \o FilterNormalize(Tail(ps))

split_into_phrases(s) ==
    LET st == PhraseLoop(<<<<>>, <<>>>>, ReSplit(s))
        all == IF st[2] # <<>> THEN Append(st[1], Strip(st[2])) ELSE st[1]
    IN  FilterNormalize(all)

----------------------------------------------------------------------------
(* Specification of the Phrase Segmenter on bounded scripts                *)

MaxTextLen == 5
TextChars == {"a", "b", " ", ".", ","}

RECURSIVE StringsUpTo(_, _)
StringsUpTo(chars, n) ==
    IF n = 0 THEN {<<>>}
    ELSE LET shorter == StringsUpTo(chars, n - 1)
         IN  shorter \cup {Append(s, c) : s \in {t \in shorter : Len(t) = n - 1}, c \in chars}

InitPhr ==
    /\ text \in StringsUpTo(TextChars, MaxTextLen)
    /\ phrases = <<>>
    /\ phr_pc = "input"
    /\ OnlyPhr

SplitIntoPhrases ==
    /\ phr_pc = "input"
    /\ phrases' = split_into_phrases(text)
    /\ phr_pc' = "split"
    /\ UNCHANGED <<text, notPhr>>

NextPhr == SplitIntoPhrases

SpecPhr == InitPhr /\ [][NextPhr]_vars

RemoveWs(s) == SelectSeq(s, LAMBDA c : c # Space)

RECURSIVE Concat(_)
Concat(ps) == IF ps = <<>> THEN <<>> ELSE Head(ps) \o Concat(Tail(ps))

\* C9: the phrases returned by split_into_phrases, concatenated in order and
\* compared without whitespace, are the input text without whitespace (no
\* character lost, duplicated or reordered); every phrase is non-empty and
\* whitespace-normalized.
C9_PhrasesReconstructText ==
    phr_pc = "split" =>
        /\ RemoveWs(Concat(phrases)) = RemoveWs(text)
        /\ \A i \in 1..Len(phrases) :
              phrases[i] # <<>> /\ phrases[i] = NormalizeWs(phrases[i])

\* a script whose whitespace was really normalized and that gave several phrases
C9_Witness ==
    /\ phr_pc = "split"
    /\ Len(phrases) >= 2
    /\ \E i \in 1..Len(phrases) : Space \in {phrases[i][k] : k \in 1..Len(phrases[i])}
    /\ Len(Concat(phrases)) < Len(text)

----------------------------------------------------------------------------
(* Timing Smoother: VideoGenerator._adjust_timing_gaps                     *)

\* a timing dict {'word', 'start', 'end', 'duration'}
Seg(w, s, e, d) == [word |-> w, start |-> s, end |-> e, duration |-> d]

\* the threshold set to 0.2
max_gap_low == R(1, 5)

max_gap == R(3, 10)                 \* if gap > 0.3
gap_reduction == R(2, 5)            \* gap_adjustment = gap * 0.4
min_duration == R(3, 2)             \* min_duration = 1.5

\* the body of the loop for one segment; adj is adjusted_segments so far.  The
\* previous segment is the same dict object as adjusted_segments[-1], so the
\* write to its 'end' shows in the returned list, while its 'duration' is left
\* as computed in its own iteration.
AdjustStep(adj, segment) ==
    LET n == Len(adj)
        gap == RSub(segment.start, adj[n].end)
        gap_adjustment == RMul(gap, gap_reduction)
        half == RDiv(gap_adjustment, RInt(2))
        middle == RDiv(RAdd(segment.start, adj[n].end), RInt(2))
        prevEnd == IF n = 0 THEN Zero
                   ELSE IF RLt(max_gap, gap) THEN RAdd(adj[n].end, half)
                   ELSE IF RLt(gap, Zero) THEN middle
                   ELSE adj[n].end
        start == IF n = 0 THEN segment.start
                 ELSE IF RLt(max_gap, gap) THEN RSub(segment.start, half)
                 ELSE IF RLt(gap, Zero) THEN middle
                 ELSE segment.start
        end == IF RLt(RSub(segment.end, start), min_duration)
               THEN RAdd(start, min_duration)
               ELSE segment.end
        adj2 == IF n = 0 THEN adj ELSE [adj EXCEPT ![n].end = prevEnd]
    IN  Append(adj2, Seg(segment.word, start, end, RSub(end, start)))

RECURSIVE AdjustLoop(_, _)
AdjustLoop(adj, segments) ==
    IF segments = <<>> THEN adj
    ELSE AdjustLoop(AdjustStep(adj, Head(segments)), Tail(segments))

_adjust_timing_gaps(segments) ==
    IF segments = <<>> THEN <<>> ELSE AdjustLoop(<<>>, segments)

----------------------------------------------------------------------------
(* Specification of the Timing Smoother on bounded ordered segment lists   *)

MaxSegs == 3
MaxPasses == 2

FirstStarts == {Zero, R(1, 10)}
SpanChoices == {R(1, 2), R(3, 2), R(2, 1)}
GapChoices == {R(-2, 5), Zero, R(1, 5), R(3, 10), R(1, 2), R(1, 1)}

\* an ordered list with consistent durations: the first segment starts at s,
\* segment i + 1 starts gs[i] after the end of segment i, segment i spans ds[i]
RECURSIVE SegsFrom(_, _, _, _)
SegsFrom(n, s, gs, ds) ==
    IF n = 0 THEN <<>>
    ELSE LET l == SegsFrom(n - 1, s, gs, ds)
             st == IF n = 1 THEN s ELSE RAdd(l[n - 1].end, gs[n - 1])
         IN  Append(l, Seg(<<"a">>, st, RAdd(st, ds[n]), ds[n]))

InitSm ==
    /\ \E n \in 0..MaxSegs :
          \E s \in FirstStarts, gs \in [1..(n - 1) -> GapChoices],
             ds \in [1..n -> SpanChoices] :
              sm_segs = SegsFrom(n, s, gs, ds)
    /\ sm_prev = <<>>
    /\ sm_passes = 0
    /\ OnlySm

SmoothPass ==
    /\ sm_passes < MaxPasses
    /\ sm_prev' = sm_segs
    /\ sm_segs' = _adjust_timing_gaps(sm_segs)
    /\ sm_passes' = sm_passes + 1
    /\ UNCHANGED notSm

NextSm == SmoothPass

SpecSm == InitSm /\ [][NextSm]_vars

Gap(l, i) == RSub(l[i + 1].start, l[i].end)

SameTimes(l, m) ==
    /\ Len(l) = Len(m)
    /\ \A i \in 1..Len(l) :
          l[i].start = m[i].start /\ l[i].end = m[i].end /\ l[i].duration = m[i].duration

\* no adjacent gap is negative or above 0.3 s and every segment spans >= 1.5 s
Settled(l) ==
    /\ \A i \in 1..(Len(l) - 1) : RLe(Zero, Gap(l, i)) /\ RLe(Gap(l, i), R(3, 10))
    /\ \A i \in 1..Len(l) : RLe(min_duration, RSub(l[i].end, l[i].start))

----------------------------------------------------------------------------
(* Timing Resolver, heuristic strategy:                                    *)
(* VideoGenerator.get_precise_word_timings and _get_fallback_timings       *)

\* len(phrase.split())
WordCount(phrase) == Len(SplitWs(phrase))

\* phrase.strip().endswith(marks)
EndsWith(phrase, marks) ==
    LET t == Strip(phrase) IN t # <<>> /\ t[Len(t)] \in marks

RECURSIVE TotalWords(_)
TotalWords(ps) == IF ps = <<>> THEN 0 ELSE WordCount(Head(ps)) + TotalWords(Tail(ps))

SPEED_FACTOR == R(19, 20)           \* 0.95
BASE_WORD_DURATION == R(7, 20)      \* 0.35
MIN_PHRASE_DURATION == R(9, 5)      \* 1.8
GAP_DURATION == R(1, 5)             \* 0.2
INITIAL_DELAY == R(1, 10)           \* current_time = 0.1
END_BUFFER == R(1, 5)               \* total_duration - 0.2
SENTENCE_PAUSE == R(2, 5)           \* base_duration += 0.4
CLAUSE_PAUSE == R(3, 10)            \* base_duration += 0.3
MIN_PER_WORD == R(3, 10)            \* words * 0.3

\* the loop over phrases; st = <<timings, current_time>>
PreciseStep(st, phrase, word_duration) ==
    LET words == WordCount(phrase)
        base0 == RMul(RInt(words), word_duration)
        base_duration == IF EndsWith(phrase, SentenceEnd) THEN RAdd(base0, SENTENCE_PAUSE)
                         ELSE IF EndsWith(phrase, ClauseEnd) THEN RAdd(base0, CLAUSE_PAUSE)
                         ELSE base0
        min_dur == RMax(MIN_PHRASE_DURATION, RMul(RInt(words), MIN_PER_WORD))
        duration == RMax(base_duration, min_dur)
    IN  <<Append(st[1], Seg(phrase, st[2], RAdd(st[2], duration), duration)),
          RAdd(RAdd(st[2], duration), GAP_DURATION)>>

RECURSIVE PreciseLoop(_, _, _)
PreciseLoop(st, ps, word_duration) ==
    IF ps = <<>> THEN st
    ELSE PreciseLoop(PreciseStep(st, Head(ps), word_duration), Tail(ps), word_duration)

\* scale_factor = (total_duration - 0.2) / current_time
ScaleFactor(total_duration, current_time) ==
    RDiv(RSub(total_duration, END_BUFFER), current_time)

ScaleTimings(timings, f) ==
    [i \in 1..Len(timings) |->
        Seg(timings[i].word, RMul(timings[i].start, f), RMul(timings[i].end, f),
            RMul(timings[i].duration, f))]

FB_SPEED_FACTOR == R(9, 10)                         \* 0.9
FB_word_duration == RMul(R(1, 4), FB_SPEED_FACTOR)  \* 0.25 * SPEED_FACTOR
FB_min_duration == RMul(R(6, 5), FB_SPEED_FACTOR)   \* 1.2 * SPEED_FACTOR
FB_gap_duration == RMul(R(2, 25), FB_SPEED_FACTOR)  \* 0.08 * SPEED_FACTOR
FB_sentence_pause == RMul(R(1, 5), FB_SPEED_FACTOR) \* 0.2 * SPEED_FACTOR
FB_clause_pause == RMul(R(1, 10), FB_SPEED_FACTOR)  \* 0.1 * SPEED_FACTOR

FallbackStep(st, phrase) ==
    LET words == WordCount(phrase)
        d0 == RMax(RMul(RInt(words), FB_word_duration), FB_min_duration)
        duration == IF EndsWith(phrase, SentenceEnd) THEN RAdd(d0, FB_sentence_pause)
                    ELSE IF EndsWith(phrase, ClauseEnd) THEN RAdd(d0, FB_clause_pause)
                    ELSE d0
    IN  <<Append(st[1], Seg(phrase, st[2], RAdd(st[2], duration), duration)),
          RAdd(RAdd(st[2], duration), FB_gap_duration)>>

RECURSIVE FallbackLoop(_, _)
FallbackLoop(st, ps) ==
    IF ps = <<>> THEN st ELSE FallbackLoop(FallbackStep(st, Head(ps)), Tail(ps))

\* the fallback with "if not phrases: return []" left out: the whole text
\* becomes one segment
FallbackTimingsNoEmptyCheck(subtitle_text) ==
    LET ps == split_into_phrases(subtitle_text)
    IN  FallbackLoop(<<<<>>, Zero>>, IF ps = <<>> THEN <<subtitle_text>> ELSE ps)[1]

_get_fallback_timings(subtitle_text) ==
    LET ps == split_into_phrases(subtitle_text)
    IN  IF ps = <<>> THEN <<>> ELSE FallbackLoop(<<<<>>, Zero>>, ps)[1]

\* load_ok = FALSE: librosa.load raises and the except branch runs
get_precise_word_timings(total_duration, subtitle_text, load_ok) ==
    LET ps == split_into_phrases(subtitle_text)
        total_words == TotalWords(ps)
        available_duration == RSub(total_duration, RMul(RInt(Len(ps)), GAP_DURATION))
        avg_time_per_word == RDiv(RMul(available_duration, SPEED_FACTOR), RInt(total_words))
        word_duration == RMax(avg_time_per_word, BASE_WORD_DURATION)
        st == PreciseLoop(<<<<>>, INITIAL_DELAY>>, ps, word_duration)
    IN  IF ps = <<>> THEN _get_fallback_timings(subtitle_text)
        ELSE IF ~load_ok THEN _get_fallback_timings(subtitle_text)
        ELSE IF RLt(total_duration, st[2])
             THEN ScaleTimings(st[1], ScaleFactor(total_duration, st[2]))
             ELSE st[1]

----------------------------------------------------------------------------
(* Timing Resolver, aligned strategy:                                      *)
(* VideoGenerator.get_speech_to_text_segments                              *)

NoneT == <<>>                       \* Python None in a field that holds a time

\* word.endswith(marks)
WordEndsWith(word, marks) == word # <<>> /\ word[Len(word)] \in marks

\* the text left as it was joined
KeepWsBeforePunct(s) == s

\* re.sub(r'\s+([.,!?;:])', r'\1', text): a run of whitespace that a punctuation
\* mark follows is removed
RECURSIVE RemoveWsFrom(_, _, _, _)
RemoveWsFrom(s, i, next_ink, acc) ==
    IF i = 0 THEN acc
    ELSE IF s[i] # Space THEN RemoveWsFrom(s, i - 1, s[i], <<s[i]>> \o acc)
    ELSE IF next_ink \in Punct THEN RemoveWsFrom(s, i - 1, next_ink, acc)
    ELSE RemoveWsFrom(s, i - 1, next_ink, <<s[i]>> \o acc)

RemoveWsBeforePunct(s) == RemoveWsFrom(s, Len(s), Space, <<>>)

\* text = ' '.join(words); re.sub(...); ' '.join(text.split())
SegmentText(words) == NormalizeWs(RemoveWsBeforePunct(JoinSp(words)))

EmptySegment == [words |-> <<>>, start |-> NoneT, end |-> NoneT]

\* should_segment without the "end of sentence" line
ShouldSegmentCountsOnly(word, word_count) ==
    \/ word_count >= 9
    \/ (word_count >= 7 /\ WordEndsWith(word, ClauseEnd))
    \/ word_count >= 10

ShouldSegment(word, word_count) ==
    \/ word_count >= 9
    \/ WordEndsWith(word, SentenceEnd)
    \/ (word_count >= 7 /\ WordEndsWith(word, ClauseEnd))
    \/ word_count >= 10

\* the body of the loop over the words;
\* st = [segments, current_segment, word_count]
AlignedStep(st, word_data) ==
    LET word == Strip(word_data.word)
        cur == [words |-> Append(st.current_segment.words, word),
                start |-> IF st.current_segment.start = NoneT
                          THEN word_data.start ELSE st.current_segment.start,
                end   |-> word_data.end]
        count == st.word_count + 1
    IN  IF word = <<>> THEN st
        ELSE IF ShouldSegment(word, count) /\ cur.words # <<>>
             THEN [segments |-> Append(st.segments,
                                       Seg(SegmentText(cur.words), cur.start, cur.end,
                                           RSub(cur.end, cur.start))),
                   current_segment |-> EmptySegment,
                   word_count |-> 0]
             ELSE [segments |-> st.segments, current_segment |-> cur, word_count |-> count]

RECURSIVE AlignedLoop(_, _)
AlignedLoop(st, words) ==
    IF words = <<>> THEN st ELSE AlignedLoop(AlignedStep(st, Head(words)), Tail(words))

\* a gap of at most 0.2 in place of 0.1
SEGMENT_GAP_wide == R(1, 5)

SEGMENT_GAP == R(1, 10)             \* gap = min(0.1, ...)

\* one iteration of the loop "for i in range(len(segments) - 1)"
GapStep(segments, i) ==
    LET gap == RMin(SEGMENT_GAP,
                    RDiv(RSub(segments[i + 1].start, segments[i].end), RInt(2)))
        e == RSub(segments[i].end, gap)
        b == RAdd(segments[i + 1].start, gap)
    IN  [segments EXCEPT
            ![i] = Seg(@.word, @.start, e, RSub(e, @.start)),
            ![i + 1] = Seg(@.word, b, @.end, RSub(@.end, b))]

RECURSIVE GapLoop(_, _)
GapLoop(segments, i) ==
    IF i > Len(segments) - 1 THEN segments ELSE GapLoop(GapStep(segments, i), i + 1)

\* aligner_ok = FALSE: the whisper call raises and the except branch returns []
get_speech_to_text_segments(words, aligner_ok) ==
    LET st == AlignedLoop([segments |-> <<>>, current_segment |-> EmptySegment,
                           word_count |-> 0], words)
        cur == st.current_segment
        segments == IF cur.words # <<>>
                    THEN Append(st.segments, Seg(SegmentText(cur.words), cur.start, cur.end,
                                                 RSub(cur.end, cur.start)))
                    ELSE st.segments
    IN  IF ~aligner_ok THEN <<>>
        ELSE IF segments # <<>> THEN GapLoop(segments, 1)
        ELSE segments

----------------------------------------------------------------------------
(* Specification of the Timing Resolver (generate_video, lines 543-549)    *)
(* followed by the Timing Smoother                                         *)

MaxWords == 3
MaxScriptLen == 4

WordTexts == {<<"a">>, <<"a", ".">>, <<"a", ",">>, <<" ">>}
WordGaps == {Zero, R(1, 2)}
WordSpans == {R(1, 20), R(1, 2)}

\* a word list as the aligner returns it: word i is ws[i], starts gs[i] after
\* the end of the word before it (after 0 for the first) and spans ds[i]
RECURSIVE WordsFrom(_, _, _, _)
WordsFrom(n, ws, gs, ds) ==
    IF n = 0 THEN <<>>
    ELSE LET l == WordsFrom(n - 1, ws, gs, ds)
             st == RAdd(IF n = 1 THEN Zero ELSE l[n - 1].end, gs[n])
         IN  Append(l, [word |-> ws[n], start |-> st, end |-> RAdd(st, ds[n])])

ScriptChars == {"a", " ", ".", ","}
Scripts == StringsUpTo(ScriptChars, MaxScriptLen)
AudioChoices == {R(1, 10), R(1, 5), R(1, 1), R(2, 1), R(5, 1), R(10, 1)}

InitTm ==
    /\ \/ /\ tm_aligner_ok = TRUE
          /\ \E n \in 0..MaxWords :
                \E ws \in [1..n -> WordTexts], gs \in [1..n -> WordGaps],
                   ds \in [1..n -> WordSpans] :
                    tm_words = WordsFrom(n, ws, gs, ds)
          /\ tm_script = <<"a", ".", "a">>
          /\ tm_audio = R(2, 1)
          /\ tm_load_ok = TRUE
       \/ /\ tm_aligner_ok \in BOOLEAN
          /\ tm_words = <<>>
          /\ tm_script \in Scripts
          /\ tm_audio \in AudioChoices
          /\ tm_load_ok \in BOOLEAN
    /\ tm_segs = <<>>
    /\ tm_strategy = "none"
    /\ tm_pc = "input"
    /\ OnlyTm

\* phrase_timings = await self.get_speech_to_text_segments(audio_path), non-empty
AlignedTimings ==
    /\ tm_pc = "input"
    /\ LET aligned == get_speech_to_text_segments(tm_words, tm_aligner_ok)
       IN  aligned # <<>> /\ tm_segs' = aligned
    /\ tm_strategy' = "aligned"
    /\ tm_pc' = "resolved"
    /\ UNCHANGED <<tm_words, tm_aligner_ok, tm_script, tm_audio, tm_load_ok, notTm>>

\* if not phrase_timings: phrase_timings = await self.get_precise_word_timings(...)
ScriptTimings ==
    /\ tm_pc = "input"
    /\ get_speech_to_text_segments(tm_words, tm_aligner_ok) = <<>>
    /\ tm_segs' = get_precise_word_timings(tm_audio, tm_script, tm_load_ok)
    /\ tm_strategy' = IF split_into_phrases(tm_script) = <<>> \/ ~tm_load_ok
                      THEN "fallback" ELSE "heuristic"
    /\ tm_pc' = "resolved"
    /\ UNCHANGED <<tm_words, tm_aligner_ok, tm_script, tm_audio, tm_load_ok, notTm>>

\* the Timing Smoother applied to the resolver's list
SmoothTimings ==
    /\ tm_pc = "resolved"
    /\ tm_segs' = _adjust_timing_gaps(tm_segs)
    /\ tm_pc' = "smoothed"
    /\ UNCHANGED <<tm_words, tm_aligner_ok, tm_script, tm_audio, tm_load_ok, tm_strategy,
                   notTm>>

NextTm == AlignedTimings \/ ScriptTimings \/ SmoothTimings

SpecTm == InitTm /\ [][NextTm]_vars

Last(l) == l[Len(l)]

OrderedStarts(l) == \A i \in 1..(Len(l) - 1) : RLe(l[i].start, l[i + 1].start)
PositiveSpans(l) == \A i \in 1..Len(l) : RLt(l[i].start, l[i].end)

\* C2: every list the Timing Resolver returns, by the aligned strategy with its
\* gap post-processing or by the heuristic strategy with its scale-down, has
\* non-decreasing starts and end > start in every segment.
C2_ResolverOrderedPositive ==
    tm_pc = "resolved" => OrderedStarts(tm_segs) /\ PositiveSpans(tm_segs)

\* C3: the last segment of a heuristic or fallback result never ends after the
\* audio does, before and after the Timing Smoother has run.
C3_LastEndWithinAudio ==
    (tm_pc \in {"resolved", "smoothed"} /\ tm_strategy \in {"heuristic", "fallback"}
        /\ tm_segs # <<>>)
    => RLe(Last(tm_segs).end, tm_audio)

\* C10: the heuristic strategy returns one segment per phrase, in phrase order,
\* carrying the phrase's text and a strictly positive duration.
C10_OneSegmentPerPhrase ==
    (tm_pc = "resolved" /\ tm_strategy \in {"heuristic", "fallback"}
        /\ split_into_phrases(tm_script) # <<>>)
    => /\ Len(tm_segs) = Len(split_into_phrases(tm_script))
       /\ \A i \in 1..Len(tm_segs) :
             /\ tm_segs[i].word = split_into_phrases(tm_script)[i]
             /\ RLt(Zero, tm_segs[i].duration)

----------------------------------------------------------------------------
(* Visual Timeline Builder: generate_video (lines 551-573) and             *)
(* VideoGenerator._create_background_clips                                 *)

VIDEO_FORMATS ==
    [shorts |-> [width |-> 1080, height |-> 1920],
     normal |-> [width |-> 1920, height |-> 1080]]

FrameSize(fmt) == <<VIDEO_FORMATS[fmt].width, VIDEO_FORMATS[fmt].height>>

EffectNames == {"static", "zoom_in", "zoom_out", "pan_right", "pan_left"}

\* the except branch of the loop body with the fallback clip not appended
ClipForSkipsFailure(image, duration, effect, size) ==
    IF image.status = "bad" THEN <<>>
    ELSE IF image.status = "fx_bad"
         THEN <<[kind |-> "basic", image |-> image.id, effect |-> "none",
                 duration |-> duration, size |-> size]>>
         ELSE <<[kind |-> "effect", image |-> image.id, effect |-> effect,
                 duration |-> duration, size |-> size]>>

\* the loop body of _create_background_clips for one (image_path, duration):
\* status "bad": opening or resizing the image raises, the except branch appends
\* a ColorClip of the frame size and the segment's duration;
\* status "fx_bad": _apply_random_transitions raises, the base clip is kept;
\* status "ok": the clip carries the randomly chosen effect
ClipFor(image, duration, effect, size) ==
    IF image.status = "bad"
    THEN <<[kind |-> "placeholder", image |-> 0, effect |-> "none",
            duration |-> duration, size |-> size]>>
    ELSE IF image.status = "fx_bad"
         THEN <<[kind |-> "basic", image |-> image.id, effect |-> "none",
                 duration |-> duration, size |-> size]>>
         ELSE <<[kind |-> "effect", image |-> image.id, effect |-> effect,
                 duration |-> duration, size |-> size]>>

Min(a, b) == IF a < b THEN a ELSE b

\* for i, (image_path, duration) in enumerate(zip(image_paths, durations))
RECURSIVE ClipLoop(_, _, _, _, _)
ClipLoop(image_paths, durations, picks, size, i) ==
    IF i > Min(Len(image_paths), Len(durations)) THEN <<>>
    ELSE ClipFor(image_paths[i], durations[i], picks[i], size)
         \o ClipLoop(image_paths, durations, picks, size, i + 1)

\* returns [raised, clips]; raised: ValueError("No image paths provided")
_create_background_clips(image_paths, durations, picks, size) ==
    IF image_paths = <<>> THEN [raised |-> TRUE, clips |-> <<>>]
    ELSE [raised |-> FALSE, clips |-> ClipLoop(image_paths, durations, picks, size, 1)]

\* the durations with every clip but the last extended by a transition
DurationsWithTransition(total, num_images) ==
    [i \in 1..num_images |->
        IF i < num_images THEN RAdd(RDiv(total, RInt(num_images)), RInt(1))
        ELSE RDiv(total, RInt(num_images))]

\* segment_duration = self.DURATION / num_images
\* durations = [segment_duration] * num_images
EqualDurations(total, num_images) ==
    [i \in 1..num_images |-> RDiv(total, RInt(num_images))]

\* moviepy concatenate with a padding of one second between the clips
ConcatenatePadded(clips) ==
    LET tt[i \in 0..Len(clips)] ==
            IF i = 0 THEN Zero ELSE RAdd(RAdd(tt[i - 1], clips[i].duration), RInt(1))
    IN  [i \in 1..Len(clips) |-> [clip |-> clips[i], start |-> tt[i - 1]]]

\* concatenate_videoclips(clips, method="compose"): each clip starts where the
\* one before it ends (the cumulative sum of the durations)
Concatenate(clips) ==
    LET tt[i \in 0..Len(clips)] ==
            IF i = 0 THEN Zero ELSE RAdd(tt[i - 1], clips[i].duration)
    IN  [i \in 1..Len(clips) |-> [clip |-> clips[i], start |-> tt[i - 1]]]

SolidColor(total, size) ==
    [kind |-> "solid", image |-> 0, effect |-> "none", duration |-> total, size |-> size]

\* the background with the empty-list test left out
BuildBackgroundNoGuard(background_images, total, picks, size) ==
    LET r == _create_background_clips(background_images,
                 EqualDurations(total, Len(background_images)), picks, size)
    IN  IF r.raised \/ r.clips = <<>>
        THEN [raised |-> TRUE, clips |-> <<>>, background |-> <<>>]
        ELSE [raised |-> FALSE, clips |-> r.clips, background |-> Concatenate(r.clips)]

\* generate_video, lines 551-573; returns [raised, clips, background]
BuildBackground(background_images, total, picks, size) ==
    LET r == _create_background_clips(background_images,
                 EqualDurations(total, Len(background_images)), picks, size)
    IN  IF Len(background_images) > 0
        THEN IF r.raised \/ r.clips = <<>>
             THEN [raised |-> TRUE, clips |-> <<>>, background |-> <<>>]
             ELSE [raised |-> FALSE, clips |-> r.clips, background |-> Concatenate(r.clips)]
        ELSE [raised |-> FALSE, clips |-> <<>>,
              background |-> <<[clip |-> SolidColor(total, size), start |-> Zero]>>]

----------------------------------------------------------------------------
(* Specification of the Visual Timeline Builder on bounded image lists     *)

MaxImages == 3

ImageStatus == {"ok", "bad", "fx_bad"}
ImageLists ==
    UNION {{[i \in 1..n |-> [id |-> i, status |-> st[i]]] : st \in [1..n -> ImageStatus]} :
           n \in 0..MaxImages}
DurationChoices == {R(9, 1), R(10, 1), R(1, 2)}

\* one draw per image; the draw is read only when the image loads and the
\* effect can be applied, so the other draws are fixed
InitVt ==
    /\ vt_images \in ImageLists
    /\ vt_picks \in [1..Len(vt_images) -> EffectNames]
    /\ \A i \in 1..Len(vt_images) : vt_images[i].status # "ok" => vt_picks[i] = "static"
    /\ vt_format \in {"shorts", "normal"}
    /\ vt_duration \in DurationChoices
    /\ vt_entry = "none"
    /\ vt_clips = <<>>
    /\ vt_background = <<>>
    /\ vt_pc = "input"
    /\ OnlyVt

\* the builder as generate_video runs it
GenerateVideoBackground ==
    /\ vt_pc = "input"
    /\ LET r == BuildBackground(vt_images, vt_duration, vt_picks, FrameSize(vt_format))
       IN  /\ vt_clips' = r.clips
           /\ vt_background' = r.background
           /\ vt_pc' = IF r.raised THEN "raised" ELSE "built"
    /\ vt_entry' = "generate_video"
    /\ UNCHANGED <<vt_images, vt_picks, vt_format, vt_duration, notVt>>

\* _create_background_clips called on its own with the image list and the
\* durations generate_video computes for it
CreateBackgroundClips ==
    /\ vt_pc = "input"
    /\ LET r == _create_background_clips(vt_images,
                    EqualDurations(vt_duration, Len(vt_images)), vt_picks,
                    FrameSize(vt_format))
       IN  /\ vt_clips' = r.clips
           /\ vt_pc' = IF r.raised THEN "raised" ELSE "built"
    /\ vt_background' = <<>>
    /\ vt_entry' = "_create_background_clips"
    /\ UNCHANGED <<vt_images, vt_picks, vt_format, vt_duration, notVt>>

NextVt == GenerateVideoBackground \/ CreateBackgroundClips

SpecVt == InitVt /\ [][NextVt]_vars

SegmentDuration == RDiv(vt_duration, RInt(Len(vt_images)))
ClipEnd(t) == RAdd(t.start, t.clip.duration)

C5_BackgroundCoversDuration ==
    (vt_pc = "built" /\ vt_entry = "generate_video" /\ Len(vt_images) >= 1) =>
        /\ Len(vt_background) = Len(vt_images)
        /\ vt_background[1].start = Zero
        /\ ClipEnd(vt_background[Len(vt_background)]) = vt_duration
        /\ \A i \in 1..(Len(vt_background) - 1) :
              RLe(vt_background[i + 1].start, ClipEnd(vt_background[i]))
        /\ \A i \in 1..Len(vt_background) :
              /\ RLe(Zero, vt_background[i].start)
              /\ RLt(vt_background[i].start, ClipEnd(vt_background[i]))
              /\ RLe(ClipEnd(vt_background[i]), vt_duration)

\* a background of several segments, one of them a placeholder, over a duration
\* that the image count does not divide evenly
C5_Witness ==
    /\ vt_pc = "built"
    /\ vt_entry = "generate_video"
    /\ Len(vt_background) = 3
    /\ vt_duration = R(10, 1)
    /\ vt_background[2].start = R(10, 3)
    /\ \E i \in 1..3 : vt_background[i].clip.kind = "placeholder"

OneSolidSegment ==
    /\ Len(vt_background) = 1
    /\ vt_background[1].clip.kind = "solid"
    /\ vt_background[1].start = Zero
    /\ vt_background[1].clip.duration = vt_duration
    /\ vt_background[1].clip.size = FrameSize(vt_format)

\* C6 as stated: with an empty image list every entry point of the builder,
\* generate_video and _create_background_clips, returns one solid-color segment
\* spanning the whole duration and raises nothing.
C6_EmptyListGivesSolidEverywhere ==
    (vt_pc \in {"built", "raised"} /\ vt_images = <<>>) =>
        vt_pc = "built" /\ OneSolidSegment

\* C6 amended: with an empty image list generate_video builds one solid-color
\* segment of the frame size that starts at 0 and spans the whole duration and
\* raises nothing, while _create_background_clips raises ValueError and returns
\* no segment.
C6_EmptyListSolidOrValueError ==
    (vt_pc \in {"built", "raised"} /\ vt_images = <<>>) =>
        /\ vt_entry = "generate_video" => (vt_pc = "built" /\ OneSolidSegment)
        /\ vt_entry = "_create_background_clips" =>
              (vt_pc = "raised" /\ vt_clips = <<>> /\ vt_background = <<>>)

\* generate_video has built the background for an empty image list
C6_Witness ==
    /\ vt_images = <<>>
    /\ vt_entry = "generate_video"
    /\ vt_pc = "built"
    /\ OneSolidSegment

\* C7: for n >= 1 images of which some fail to load, _create_background_clips
\* returns n clips in image order, each failed image replaced by a solid-color
\* placeholder of the frame size and of that segment's duration, and nothing
\* is raised.
C7_FailedImageBecomesPlaceholder ==
    (vt_pc \in {"built", "raised"} /\ Len(vt_images) >= 1) =>
        /\ vt_pc = "built"
        /\ Len(vt_clips) = Len(vt_images)
        /\ \A i \in 1..Len(vt_clips) :
              /\ vt_clips[i].duration = SegmentDuration
              /\ vt_clips[i].size = FrameSize(vt_format)
              /\ IF vt_images[i].status = "bad"
                 THEN vt_clips[i].kind = "placeholder"
                 ELSE vt_clips[i].kind \in {"effect", "basic"}
                      /\ vt_clips[i].image = vt_images[i].id

\* a failed image between two good ones, and the list was built
C7_Witness ==
    /\ vt_pc = "built"
    /\ Len(vt_images) = 3
    /\ vt_images[1].status = "ok"
    /\ vt_images[2].status = "bad"
    /\ vt_images[3].status = "ok"
    /\ Len(vt_clips) = 3
    /\ vt_clips[2].kind = "placeholder"

----------------------------------------------------------------------------
(* Overlay Compositor: VideoGenerator.create_text_clip                     *)

FADE_MAX == R(3, 10)                \* min(0.3, ...)
FADE_SHARE == R(3, 20)              \* duration * 0.15

\* returns <<>> for None, else a one-element list holding the clip; text_ok =
\* FALSE: building the clip raises and the except branch returns None
create_text_clip(txt, start_time, duration, text_ok) ==
    IF txt = <<>> THEN <<>>
    ELSE IF ~text_ok THEN <<>>
    ELSE <<[kind |-> "subtitle", text |-> txt, start |-> start_time,
            duration |-> duration,
            fade |-> RMin(FADE_MAX, RMul(duration, FADE_SHARE))]>>

\* for timing in phrase_timings: clip = self.create_text_clip(...); if clip: append
RECURSIVE SubtitleClips(_, _, _)
SubtitleClips(timings, failing, i) ==
    IF i > Len(timings) THEN <<>>
    ELSE create_text_clip(timings[i].word, timings[i].start, timings[i].duration,
                          i \notin failing)
         \o SubtitleClips(timings, failing, i + 1)

TitleClip(duration) == [kind |-> "title", text |-> <<"t">>, start |-> Zero,
                        duration |-> duration, fade |-> RInt(1)]

----------------------------------------------------------------------------
(* Progress reporting: MyBarLogger.callback                                *)

\* callback(**changes) for one (parameter, value); cb is the progress callback.
\* Returns [raised, events]: the calls made to the progress callback, and
\* whether the call raised (a callback taking one argument is called with two).
LoggerCallback(parameter, value, total, cb) ==
    IF parameter = "frame" /\ cb # "none" /\ total # 0
    THEN IF cb = "two_args"
         THEN [raised |-> FALSE,
               events |-> <<[phase |-> "render",
                             pct |-> RMul(R(value, total), RInt(100))]>>]
         ELSE [raised |-> TRUE, events |-> <<>>]
    ELSE [raised |-> FALSE, events |-> <<>>]

----------------------------------------------------------------------------
(* Render Pipeline: VideoGenerator.generate_video, one action per step     *)

MaxRenderImages == 1
MaxFrames == 2

RenderScripts == {<<>>, <<" ">>, <<"a", ".">>, <<"a", ",", "a">>}
RenderWords == {<<>>,
                <<[word |-> <<" ">>, start |-> Zero, end |-> R(1, 2)]>>,
                <<[word |-> <<"a", ".">>, start |-> Zero, end |-> R(1, 2)],
                  [word |-> <<"a">>, start |-> R(1, 1), end |-> R(3, 2)]>>}
RenderImages ==
    UNION {{[i \in 1..n |-> [id |-> i, status |-> st[i]]] : st \in [1..n -> {"ok", "bad"}]} :
           n \in 0..MaxRenderImages}
RenderEffects == {"static", "zoom_in"}

Init ==
    /\ rd_pc = "idle"
    /\ rd_cb \in {"none", "two_args", "one_arg"}
    /\ rd_events = <<>>
    /\ rd_format \in {"shorts", "normal"}
    /\ rd_script \in RenderScripts
    /\ rd_words \in RenderWords
    /\ rd_aligner_ok \in BOOLEAN
    /\ rd_aligner_ok = FALSE => rd_words = <<>>
    /\ rd_load_ok \in BOOLEAN
    \* the script and librosa are read only when the aligner gives nothing
    /\ rd_words # <<>> => (rd_script = <<"a", ".">> /\ rd_load_ok = TRUE)
    /\ rd_images \in RenderImages
    /\ rd_audio \in {R(2, 1), R(10, 1)}
    /\ rd_DURATION = NoneT
    /\ rd_timings = <<>>
    /\ rd_strategy = "none"
    /\ rd_background = <<>>
    /\ rd_text_clips = <<>>
    /\ rd_total \in 0..MaxFrames
    /\ rd_frame = 0
    /\ rd_temp = FALSE
    /\ rd_open = {}
    /\ rd_result = "none"
    /\ OnlyRd

\* the except branch starting the call over instead of re-raising
RaiseAndRetry ==
    /\ rd_pc' = "idle"
    /\ rd_result' = "raised"

\* except Exception: ... raise
Raise ==
    /\ rd_pc' = "failed"
    /\ rd_result' = "raised"

\* lines 516-541: directories, paths, AudioFileClip(audio_path), self.DURATION
LoadAudio ==
    /\ rd_pc = "idle"
    /\ \E audio_ok \in BOOLEAN :
         IF audio_ok
         THEN /\ rd_open' = rd_open \cup {"audio"}
              /\ rd_DURATION' = rd_audio
              /\ rd_pc' = "timing"
              /\ UNCHANGED rd_result
         ELSE Raise /\ UNCHANGED <<rd_open, rd_DURATION>>
    /\ UNCHANGED <<rd_cb, rd_events, rd_format, rd_script, rd_words, rd_aligner_ok,
                   rd_load_ok, rd_images, rd_audio, rd_timings, rd_strategy, rd_background,
                   rd_text_clips, rd_total, rd_frame, rd_temp, notRd>>

\* lines 543-549 with the aligner's exception let through instead of caught
ResolveTimingsSurfacesFailure ==
    /\ rd_pc = "timing"
    /\ LET aligned == get_speech_to_text_segments(rd_words, rd_aligner_ok)
       IN  IF ~rd_aligner_ok
           THEN Raise /\ UNCHANGED <<rd_timings, rd_strategy>>
           ELSE /\ rd_timings' = IF aligned = <<>>
                                 THEN get_precise_word_timings(rd_audio, rd_script, rd_load_ok)
                                 ELSE aligned
                /\ rd_strategy' = IF aligned = <<>> THEN "heuristic" ELSE "aligned"
                /\ rd_pc' = "background"
                /\ UNCHANGED rd_result
    /\ UNCHANGED <<rd_cb, rd_events, rd_format, rd_script, rd_words, rd_aligner_ok,
                   rd_load_ok, rd_images, rd_audio, rd_DURATION, rd_background,
                   rd_text_clips, rd_total, rd_frame, rd_temp, rd_open, notRd>>

\* lines 543-549: the aligned strategy, and the heuristic when it returns nothing
ResolveTimings ==
    /\ rd_pc = "timing"
    /\ LET aligned == get_speech_to_text_segments(rd_words, rd_aligner_ok)
       IN  /\ rd_timings' = IF aligned = <<>>
                            THEN get_precise_word_timings(rd_audio, rd_script, rd_load_ok)
                            ELSE aligned
           /\ rd_strategy' = IF aligned = <<>> THEN "heuristic" ELSE "aligned"
    /\ rd_pc' = "background"
    /\ UNCHANGED <<rd_cb, rd_events, rd_format, rd_script, rd_words, rd_aligner_ok,
                   rd_load_ok, rd_images, rd_audio, rd_DURATION, rd_background,
                   rd_text_clips, rd_total, rd_frame, rd_temp, rd_open, rd_result, notRd>>

\* lines 551-573: the background track
BuildVisuals ==
    /\ rd_pc = "background"
    /\ \E picks \in [1..Len(rd_images) -> RenderEffects] :
         LET r == BuildBackground(rd_images, rd_DURATION, picks, FrameSize(rd_format))
         IN  IF r.raised
             THEN Raise /\ UNCHANGED rd_background
             ELSE /\ rd_background' = r.background
                  /\ rd_pc' = "overlays"
                  /\ UNCHANGED rd_result
    /\ UNCHANGED <<rd_cb, rd_events, rd_format, rd_script, rd_words, rd_aligner_ok,
                   rd_load_ok, rd_images, rd_audio, rd_DURATION, rd_timings, rd_strategy,
                   rd_text_clips, rd_total, rd_frame, rd_temp, rd_open, notRd>>

\* lines 575-608: the title clip, the subtitle clips, the composition
BuildOverlays ==
    /\ rd_pc = "overlays"
    /\ \E title_ok \in BOOLEAN, failing \in SUBSET (1..Len(rd_timings)) :
         IF title_ok
         THEN /\ rd_text_clips' = <<TitleClip(rd_DURATION)>>
                                   \o SubtitleClips(rd_timings, failing, 1)
              /\ rd_open' = rd_open \cup {"final"}
              /\ rd_pc' = "temp_audio"
              /\ UNCHANGED rd_result
         ELSE Raise /\ UNCHANGED <<rd_text_clips, rd_open>>
    /\ UNCHANGED <<rd_cb, rd_events, rd_format, rd_script, rd_words, rd_aligner_ok,
                   rd_load_ok, rd_images, rd_audio, rd_DURATION, rd_timings, rd_strategy,
                   rd_background, rd_total, rd_frame, rd_temp, notRd>>

\* lines 610-623: audio.write_audiofile(temp_audio_path), AudioFileClip(temp)
WriteTempAudio ==
    /\ rd_pc = "temp_audio"
    /\ \E write_ok \in BOOLEAN :
         IF write_ok
         THEN /\ rd_temp' = TRUE
              /\ rd_open' = rd_open \cup {"processed_audio"}
              /\ rd_pc' = "encoding"
              /\ UNCHANGED rd_result
         ELSE /\ Raise
              /\ rd_temp' \in BOOLEAN
              /\ UNCHANGED rd_open
    /\ UNCHANGED <<rd_cb, rd_events, rd_format, rd_script, rd_words, rd_aligner_ok,
                   rd_load_ok, rd_images, rd_audio, rd_DURATION, rd_timings, rd_strategy,
                   rd_background, rd_text_clips, rd_total, rd_frame, notRd>>

\* lines 627-636: the encoder writes one frame and updates the logger, under
\* the parameter name 'frame' or under another one
EncodeFrame ==
    /\ rd_pc = "encoding"
    /\ rd_frame < rd_total
    /\ \E parameter \in {"frame", "message"} :
         LET r == LoggerCallback(parameter, rd_frame + 1, rd_total, rd_cb)
         IN  IF r.raised
             THEN Raise /\ UNCHANGED <<rd_events, rd_frame>>
             ELSE /\ rd_events' = rd_events \o r.events
                  /\ rd_frame' = rd_frame + 1
                  /\ UNCHANGED <<rd_pc, rd_result>>
    /\ UNCHANGED <<rd_cb, rd_format, rd_script, rd_words, rd_aligner_ok, rd_load_ok,
                   rd_images, rd_audio, rd_DURATION, rd_timings, rd_strategy, rd_background,
                   rd_text_clips, rd_total, rd_temp, rd_open, notRd>>

\* lines 627-636: the encoder fails
EncodeFail ==
    /\ rd_pc = "encoding"
    /\ Raise
    /\ UNCHANGED <<rd_cb, rd_events, rd_format, rd_script, rd_words, rd_aligner_ok,
                   rd_load_ok, rd_images, rd_audio, rd_DURATION, rd_timings, rd_strategy,
                   rd_background, rd_text_clips, rd_total, rd_frame, rd_temp, rd_open,
                   notRd>>

\* lines 627-643: write_videofile returns; the clips are closed and the
\* temporary audio file is removed
FinishEncode ==
    /\ rd_pc = "encoding"
    /\ rd_frame = rd_total
    /\ rd_open' = rd_open \ {"audio", "processed_audio", "final"}
    /\ rd_temp' = FALSE
    /\ rd_pc' = "thumbnail"
    /\ UNCHANGED <<rd_cb, rd_events, rd_format, rd_script, rd_words, rd_aligner_ok,
                   rd_load_ok, rd_images, rd_audio, rd_DURATION, rd_timings, rd_strategy,
                   rd_background, rd_text_clips, rd_total, rd_frame, rd_result, notRd>>

\* lines 645-657: the thumbnail from the first frame, and the returned paths
Thumbnail ==
    /\ rd_pc = "thumbnail"
    /\ \E thumb_ok \in BOOLEAN :
         IF thumb_ok
         THEN /\ rd_pc' = "done"
              /\ rd_result' = "paths"
              /\ UNCHANGED rd_open
         ELSE /\ Raise
              /\ rd_open' \in {rd_open, rd_open \cup {"video_clip"}}
    /\ UNCHANGED <<rd_cb, rd_events, rd_format, rd_script, rd_words, rd_aligner_ok,
                   rd_load_ok, rd_images, rd_audio, rd_DURATION, rd_timings, rd_strategy,
                   rd_background, rd_text_clips, rd_total, rd_frame, rd_temp, notRd>>

Next ==
    \/ LoadAudio
    \/ ResolveTimings
    \/ BuildVisuals
    \/ BuildOverlays
    \/ WriteTempAudio
    \/ EncodeFrame
    \/ EncodeFail
    \/ FinishEncode
    \/ Thumbnail

Spec == Init /\ [][Next]_vars

Phases == {"compose", "render", "export"}

Reached100(phase, i) == rd_events[i].phase = phase /\ rd_events[i].pct = RInt(100)

\* C8: for a completed render with a progress callback, the callback received
\* ('compose', 100) before every 'render' event and ('render', 100) before every
\* 'export' event, and every event is a phase of compose, render, export with a
\* percentage in 0..100.
C8_ProgressPhasesInOrder ==
    (rd_pc = "done" /\ rd_cb # "none") =>
        /\ \A i \in 1..Len(rd_events) :
              rd_events[i].phase = "render" => \E c \in 1..(i - 1) : Reached100("compose", c)
        /\ \A i \in 1..Len(rd_events) :
              rd_events[i].phase = "export" => \E r \in 1..(i - 1) : Reached100("render", r)
        /\ \A i \in 1..Len(rd_events) :
              /\ rd_events[i].phase \in Phases
              /\ RLe(Zero, rd_events[i].pct)
              /\ RLe(rd_events[i].pct, RInt(100))

----------------------------------------------------------------------------
(* Empty scripts and aligner failure in the Render Pipeline                *)

NoPhrases == split_into_phrases(rd_script) = <<>>
AlignerGivesNothing == get_speech_to_text_segments(rd_words, rd_aligner_ok) = <<>>
SubtitlesOf(clips) == {i \in 1..Len(clips) : clips[i].kind = "subtitle"}

\* C11: for a script that segments into zero phrases, with an aligner that
\* returns nothing, the resolver's list is empty, no subtitle clip is ever
\* built, and a render that returns its paths was composed of the title only.
C11_EmptyScriptNoSubtitles ==
    (NoPhrases /\ AlignerGivesNothing) =>
        /\ rd_timings = <<>>
        /\ SubtitlesOf(rd_text_clips) = {}
        /\ rd_result = "paths" => rd_text_clips = <<TitleClip(rd_DURATION)>>

\* a render of a whitespace-only script returned its paths
C11_Witness ==
    /\ rd_script = <<" ">>
    /\ AlignerGivesNothing
    /\ rd_result = "paths"
    /\ rd_text_clips = <<TitleClip(rd_DURATION)>>

\* the aligner call raised, or returned no word with any text in it
AlignerUnavailable ==
    ~rd_aligner_ok \/ \A i \in 1..Len(rd_words) : Strip(rd_words[i].word) = <<>>

\* C12: the timing step never fails the render; its list comes from the
\* heuristic applied to the script exactly when the aligner raised or returned
\* no words, and from the aligned strategy otherwise.
C12_AlignerFailureFallsBackToHeuristic ==
    /\ (rd_pc = "failed" /\ rd_strategy = "none") => rd_DURATION = NoneT
    /\ rd_strategy # "none" =>
          /\ rd_strategy = "heuristic" <=> AlignerUnavailable
          /\ AlignerUnavailable =>
                rd_timings = get_precise_word_timings(rd_audio, rd_script, rd_load_ok)
          /\ ~AlignerUnavailable =>
                rd_timings = get_speech_to_text_segments(rd_words, rd_aligner_ok)

\* the aligner raised and the render went on, with heuristic subtitles, to
\* return its paths
C12_Witness ==
    /\ ~rd_aligner_ok
    /\ rd_strategy = "heuristic"
    /\ rd_timings # <<>>
    /\ SubtitlesOf(rd_text_clips) # {}
    /\ rd_result = "paths"

----------------------------------------------------------------------------
(* The request state machine, read off the position of generate_video      *)

\* Idle: before line 516; Composing: lines 516-623 (audio, timings, background,
\* overlays, composition, temporary audio); Rendering: write_videofile, lines
\* 627-636; Exporting: clean-up and thumbnail, lines 638-652; Done: the return
\* at 654; Failed: the raise at 662
RequestState(pc) ==
    CASE pc = "idle" -> "Idle"
      [] pc \in {"timing", "background", "overlays", "temp_audio"} -> "Composing"
      [] pc = "encoding" -> "Rendering"
      [] pc = "thumbnail" -> "Exporting"
      [] pc = "done" -> "Done"
      [] pc = "failed" -> "Failed"

RequestOrder == <<"Idle", "Composing", "Rendering", "Exporting", "Done">>

\* C13: every step of a request either stays in its state, moves to the next
\* state of Idle, Composing, Rendering, Exporting, Done, or moves from a state
\* other than Done and Failed to Failed; so no state is re-entered and Done and
\* Failed are never left.
C13_RequestStateMachine ==
    [][LET a == RequestState(rd_pc)
           b == RequestState(rd_pc')
       IN  \/ a = b
           \/ \E k \in 1..4 : a = RequestOrder[k] /\ b = RequestOrder[k + 1]
           \/ a \notin {"Done", "Failed"} /\ b = "Failed"]_vars

\* a request went through every state to Done, with frames encoded on the way
C13_Witness ==
    /\ RequestState(rd_pc) = "Done"
    /\ rd_total > 0
    /\ rd_frame = rd_total
    /\ rd_result = "paths"

----------------------------------------------------------------------------
(* Temporary resources at the exits of generate_video                      *)

\* C14: when generate_video has returned or raised, the temporary audio file
\* has been removed and no clip the call opened is still open.
C14_CleanupOnEveryExit ==
    rd_pc \in {"done", "failed"} => (rd_temp = FALSE /\ rd_open = {})

----------------------------------------------------------------------------
(* Concurrent render requests.  app.py starts one thread per request       *)
(* (generate, lines 89-103); every thread runs generate_content_video on    *)
(* the one module-level video_generator (app.py line 29).                   *)

Requests == {"r1", "r2"}

NoSize == <<>>                      \* self.WIDTH = self.HEIGHT = None

\* temp_audio_path = temp_dir / "temp-audio.m4a"; generate_content_video passes
\* no temp_dir, so temp_dir = self.DEFAULT_TEMP_DIR whatever the request is
TempAudioPath(r) == <<"contents/temp", "temp-audio.m4a">>

TempPaths == {TempAudioPath(r) : r \in Requests}

\* (self.WIDTH, self.HEIGHT) of the shared generator
CurrentSize == IF cc_current_format = "none" THEN NoSize ELSE FrameSize(cc_current_format)

NothingUsed ==
    [background_size |-> NoSize, background_duration |-> NoneT,
     final_size |-> NoSize, final_duration |-> NoneT, processed_audio |-> "none"]

InitCc ==
    /\ cc_pc = [r \in Requests |-> "start"]
    /\ cc_format \in [Requests -> {"shorts", "normal"}]
    /\ cc_audio \in [Requests -> {R(2, 1), R(10, 1)}]
    /\ cc_current_format = "none"
    /\ cc_DURATION = NoneT
    /\ cc_files = [p \in TempPaths |-> "absent"]
    /\ cc_used = [r \in Requests |-> NothingUsed]
    /\ cc_removed = [r \in Requests |-> {}]
    /\ OnlyCc

\* app.py line 389: video_generator.set_format(video_format)
CcSetFormat(r) ==
    /\ cc_pc[r] = "start"
    /\ cc_current_format' = cc_format[r]
    /\ cc_pc' = [cc_pc EXCEPT ![r] = "load_audio"]
    /\ UNCHANGED <<cc_format, cc_audio, cc_DURATION, cc_files, cc_used, cc_removed, notCc>>

\* generate_video lines 516-541: self.DURATION = audio.duration
CcLoadAudio(r) ==
    /\ cc_pc[r] = "load_audio"
    /\ cc_DURATION' = cc_audio[r]
    /\ cc_pc' = [cc_pc EXCEPT ![r] = "background"]
    /\ UNCHANGED <<cc_format, cc_audio, cc_current_format, cc_files, cc_used, cc_removed,
                   notCc>>

\* lines 551-573: the background is cut from self.DURATION at (self.WIDTH, self.HEIGHT)
CcBackground(r) ==
    /\ cc_pc[r] = "background"
    /\ cc_used' = [cc_used EXCEPT ![r].background_size = CurrentSize,
                                  ![r].background_duration = cc_DURATION]
    /\ cc_pc' = [cc_pc EXCEPT ![r] = "overlays"]
    /\ UNCHANGED <<cc_format, cc_audio, cc_current_format, cc_DURATION, cc_files,
                   cc_removed, notCc>>

\* lines 575-608: CompositeVideoClip(clips, size=(self.WIDTH, self.HEIGHT)),
\* final.set_duration(self.DURATION)
CcOverlays(r) ==
    /\ cc_pc[r] = "overlays"
    /\ cc_used' = [cc_used EXCEPT ![r].final_size = CurrentSize,
                                  ![r].final_duration = cc_DURATION]
    /\ cc_pc' = [cc_pc EXCEPT ![r] = "temp_audio"]
    /\ UNCHANGED <<cc_format, cc_audio, cc_current_format, cc_DURATION, cc_files,
                   cc_removed, notCc>>

\* lines 612-619: audio.write_audiofile(str(temp_audio_path), ...)
CcWriteTempAudio(r) ==
    /\ cc_pc[r] = "temp_audio"
    /\ cc_files' = [cc_files EXCEPT ![TempAudioPath(r)] = r]
    /\ cc_pc' = [cc_pc EXCEPT ![r] = "open_temp"]
    /\ UNCHANGED <<cc_format, cc_audio, cc_current_format, cc_DURATION, cc_used,
                   cc_removed, notCc>>

\* lines 622-623: processed_audio = AudioFileClip(str(temp_audio_path)); it
\* raises when the file is not there
CcOpenTempAudio(r) ==
    /\ cc_pc[r] = "open_temp"
    /\ IF cc_files[TempAudioPath(r)] = "absent"
       THEN /\ cc_pc' = [cc_pc EXCEPT ![r] = "failed"]
            /\ UNCHANGED cc_used
       ELSE /\ cc_used' = [cc_used EXCEPT ![r].processed_audio = cc_files[TempAudioPath(r)]]
            /\ cc_pc' = [cc_pc EXCEPT ![r] = "encoding"]
    /\ UNCHANGED <<cc_format, cc_audio, cc_current_format, cc_DURATION, cc_files,
                   cc_removed, notCc>>

\* lines 627-636: final.write_videofile(...)
CcEncode(r) ==
    /\ cc_pc[r] = "encoding"
    /\ cc_pc' = [cc_pc EXCEPT ![r] = "clean_up"]
    /\ UNCHANGED <<cc_format, cc_audio, cc_current_format, cc_DURATION, cc_files, cc_used,
                   cc_removed, notCc>>

\* lines 638-643: if os.path.exists(temp_audio_path): os.remove(temp_audio_path)
CcCleanUp(r) ==
    /\ cc_pc[r] = "clean_up"
    /\ IF cc_files[TempAudioPath(r)] = "absent"
       THEN UNCHANGED <<cc_files, cc_removed>>
       ELSE /\ cc_removed' = [cc_removed EXCEPT
                                 ![r] = @ \cup {cc_files[TempAudioPath(r)]}]
            /\ cc_files' = [cc_files EXCEPT ![TempAudioPath(r)] = "absent"]
    /\ cc_pc' = [cc_pc EXCEPT ![r] = "done"]
    /\ UNCHANGED <<cc_format, cc_audio, cc_current_format, cc_DURATION, cc_used, notCc>>

NextCc ==
    \E r \in Requests :
        \/ CcSetFormat(r)
        \/ CcLoadAudio(r)
        \/ CcBackground(r)
        \/ CcOverlays(r)
        \/ CcWriteTempAudio(r)
        \/ CcOpenTempAudio(r)
        \/ CcEncode(r)
        \/ CcCleanUp(r)

SpecCc == InitCc /\ [][NextCc]_vars

\* C15: the temporary audio file of a request is its own: the file a request
\* wrote still holds its audio when it opens it, a request reads only its own
\* audio back, and a request deletes only the file it wrote.
C15_TempFilesKeyedByRequest ==
    \A r \in Requests :
        /\ cc_pc[r] = "open_temp" => cc_files[TempAudioPath(r)] = r
        /\ cc_used[r].processed_audio \in {"none", r}
        /\ cc_removed[r] \subseteq {r}

\* C16: the frame size and the duration a request builds its background and
\* its composition from are those of its own format and its own audio.
C16_NoSharedStateAcrossRequests ==
    \A r \in Requests :
        /\ cc_used[r].background_size \in {NoSize, FrameSize(cc_format[r])}
        /\ cc_used[r].final_size \in {NoSize, FrameSize(cc_format[r])}
        /\ cc_used[r].background_duration \in {NoneT, cc_audio[r]}
        /\ cc_used[r].final_duration \in {NoneT, cc_audio[r]}

----------------------------------------------------------------------------
(* generate_video run once per kind of progress callback, every run        *)
(* against the same behaviour of the collaborators                         *)

\* progress_callback: None, a two-argument function (main.py), or the
\* one-argument lambda of generate_content_video (app.py lines 520-523)
CallbackKinds == {"none", "two_args", "one_arg"}

MaxComparedFrames == 4

\* the steps of generate_video, in the order of its body
CbSteps == <<"load_audio", "timings", "background", "overlays", "temp_audio", "encoding",
             "thumbnail", "returned">>

CbNextStep(stage) == CbSteps[(CHOOSE k \in 1..(Len(CbSteps) - 1) : CbSteps[k] = stage) + 1]

\* the run with callback k has neither returned nor raised
CbLive(k) == cb_result[k] = "none"

InitCb ==
    /\ cb_stage = "load_audio"
    /\ cb_total \in 0..MaxComparedFrames
    /\ cb_frame = 0
    /\ cb_events = [k \in CallbackKinds |-> <<>>]
    /\ cb_result = [k \in CallbackKinds |-> "none"]
    /\ OnlyCb

\* a step other than write_videofile: it succeeds or it raises, for every run
\* alike; the timing and background steps catch their failures themselves
CbStep ==
    /\ cb_stage \in {"load_audio", "timings", "background", "overlays", "temp_audio",
                     "thumbnail"}
    /\ \E ok \in BOOLEAN :
         /\ cb_stage \in {"timings", "background"} => ok
         /\ IF ok
            THEN /\ cb_stage' = CbNextStep(cb_stage)
                 /\ cb_result' = [k \in CallbackKinds |->
                                    IF cb_stage = "thumbnail" /\ CbLive(k)
                                    THEN "paths" ELSE cb_result[k]]
            ELSE /\ cb_stage' = "raised"
                 /\ cb_result' = [k \in CallbackKinds |->
                                    IF CbLive(k) THEN "raised" ELSE cb_result[k]]
    /\ UNCHANGED <<cb_total, cb_frame, cb_events, notCb>>

\* lines 627-636: the encoder writes a frame and updates MyBarLogger
CbEncodeFrame ==
    /\ cb_stage = "encoding"
    /\ cb_frame < cb_total
    /\ \E parameter \in {"frame", "message"} :
         /\ cb_events' = [k \in CallbackKinds |->
                            IF CbLive(k)
                            THEN cb_events[k]
                                 \o LoggerCallback(parameter, cb_frame + 1, cb_total, k).events
                            ELSE cb_events[k]]
         /\ cb_result' = [k \in CallbackKinds |->
                            IF CbLive(k)
                               /\ LoggerCallback(parameter, cb_frame + 1, cb_total, k).raised
                            THEN "raised" ELSE cb_result[k]]
    /\ cb_frame' = cb_frame + 1
    /\ UNCHANGED <<cb_stage, cb_total, notCb>>

\* lines 627-636: the encoder fails
CbEncodeFail ==
    /\ cb_stage = "encoding"
    /\ cb_stage' = "raised"
    /\ cb_result' = [k \in CallbackKinds |-> IF CbLive(k) THEN "raised" ELSE cb_result[k]]
    /\ UNCHANGED <<cb_total, cb_frame, cb_events, notCb>>

\* lines 627-643: write_videofile returns
CbFinishEncode ==
    /\ cb_stage = "encoding"
    /\ cb_frame = cb_total
    /\ cb_stage' = "thumbnail"
    /\ UNCHANGED <<cb_total, cb_frame, cb_events, cb_result, notCb>>

NextCb == CbStep \/ CbEncodeFrame \/ CbEncodeFail \/ CbFinishEncode

SpecCb == InitCb /\ [][NextCb]_vars

\* C17: when the collaborators have run to the end, the run with any progress
\* callback ended as the run without a callback did: both returned the paths or
\* both raised.
C17_CallbackDoesNotChangeOutcome ==
    cb_stage \in {"returned", "raised"} =>
        \A k \in CallbackKinds : cb_result[k] = cb_result["none"]

----------------------------------------------------------------------------
(* The aligned strategy on word lists long enough to reach its word-count  *)
(* thresholds                                                               *)

MaxSegWords == 12
MaxMarks == 3

\* the mark that ends a sentence and the mark that ends a clause
SegMarks == {".", ","}

\* word i is "a" followed by its mark, if it has one
MarkedWords(n, marks) ==
    [i \in 1..n |-> IF i \in DOMAIN marks THEN <<"a", marks[i]>> ELSE <<"a">>]

\* word i is spoken from second i - 1 to second i - 1/2
TimedWords(n, ws) ==
    [i \in 1..n |-> [word |-> ws[i], start |-> RInt(i - 1), end |-> R(2 * i - 1, 2)]]

\* the aligner returns up to MaxSegWords words, at most MaxMarks of them
\* followed by a mark
InitSeg ==
    /\ tm_aligner_ok = TRUE
    /\ \E n \in 0..MaxSegWords :
          \E at \in {m \in SUBSET (1..n) : Cardinality(m) <= MaxMarks} :
             \E marks \in [at -> SegMarks] :
                tm_words = TimedWords(n, MarkedWords(n, marks))
    /\ tm_script = <<"a", ".", "a">>
    /\ tm_audio = RInt(MaxSegWords + 1)
    /\ tm_load_ok = TRUE
    /\ tm_segs = <<>>
    /\ tm_strategy = "none"
    /\ tm_pc = "input"
    /\ OnlyTm

NextSeg == AlignedTimings \/ ScriptTimings

SpecSeg == InitSeg /\ [][NextSeg]_vars

\* the words of a returned segment
WordsOf(segment) == SplitWs(segment.word)

\* the closing rule as C18 states it
ClosesByCount(word, count) ==
    count >= 9 \/ (count >= 7 /\ WordEndsWith(word, ClauseEnd)) \/ count >= 10

\* the closing rule with the end of a sentence added
ClosesByCountOrSentence(word, count) ==
    ClosesByCount(word, count) \/ WordEndsWith(word, SentenceEnd)

\* C18 as stated: a segment is closed after a word exactly when the count is
\* >= 9, or >= 7 at the end of a clause, or 10; only the final remainder has
\* fewer than 7 words; no segment has more than 10.
C18_SegmentsCloseAtCountThresholds ==
    tm_strategy = "aligned" =>
        \A i \in 1..Len(tm_segs) :
            LET ws == WordsOf(tm_segs[i])
            IN  /\ \A k \in 1..(Len(ws) - 1) : ~ClosesByCount(ws[k], k)
                /\ i < Len(tm_segs) => ClosesByCount(ws[Len(ws)], Len(ws))
                /\ i < Len(tm_segs) => Len(ws) >= 7
                /\ Len(ws) <= 10

\* C18 amended: a segment is closed after a word exactly when the count is
\* >= 9, or the word ends a sentence, or the count is >= 7 and the word ends a
\* clause; a segment closed with fewer than 7 words ends a sentence or is the
\* final remainder; no segment has more than 9 words.
C18_SegmentsCloseAtCountOrSentence ==
    tm_strategy = "aligned" =>
        \A i \in 1..Len(tm_segs) :
            LET ws == WordsOf(tm_segs[i])
            IN  /\ \A k \in 1..(Len(ws) - 1) : ~ClosesByCountOrSentence(ws[k], k)
                /\ i < Len(tm_segs) => ClosesByCountOrSentence(ws[Len(ws)], Len(ws))
                /\ (i < Len(tm_segs) /\ Len(ws) < 7) => WordEndsWith(ws[Len(ws)], SentenceEnd)
                /\ Len(ws) <= 9

\* the list holds a segment closed by the count alone, at nine words none of
\* which carries a mark, and one closed at a sentence end with fewer than seven
C18_Witness ==
    /\ tm_strategy = "aligned"
    /\ \E i \in 1..(Len(tm_segs) - 1) :
          LET ws == WordsOf(tm_segs[i])
          IN  Len(ws) = 9 /\ \A k \in 1..9 : ws[k] = <<"a">>
    /\ \E i \in 1..(Len(tm_segs) - 1) :
          /\ Len(WordsOf(tm_segs[i])) < 7
          /\ WordEndsWith(tm_segs[i].word, SentenceEnd)

----------------------------------------------------------------------------
(* The span of an aligned segment (get_speech_to_text_segments, lines      *)
(* 435-441 and 488-498): the aligned strategy on word lists whose pauses   *)
(* and word lengths vary                                                   *)

InitAligned ==
    /\ tm_aligner_ok = TRUE
    /\ \E n \in 0..MaxWords :
          \E ws \in [1..n -> WordTexts], gs \in [1..n -> WordGaps],
             ds \in [1..n -> WordSpans] :
              tm_words = WordsFrom(n, ws, gs, ds)
    /\ tm_script = <<"a", ".", "a">>
    /\ tm_audio = R(2, 1)
    /\ tm_load_ok = TRUE
    /\ tm_segs = <<>>
    /\ tm_strategy = "none"
    /\ tm_pc = "input"
    /\ OnlyTm

NextAligned == AlignedTimings \/ ScriptTimings

SpecAligned == InitAligned /\ [][NextAligned]_vars

\* the words the loop does not skip ("if not word: continue")
SpokenWords == SelectSeq(tm_words, LAMBDA w : Strip(w.word) # <<>>)

\* the number of words in the segments before segment i
RECURSIVE WordsBefore(_, _)
WordsBefore(segments, i) ==
    IF i = 1 THEN 0
    ELSE WordsBefore(segments, i - 1) + Len(WordsOf(segments[i - 1]))

\* the aligner's times of the first and of the last word of segment i
FirstWord(i) == SpokenWords[WordsBefore(tm_segs, i) + 1]
LastWord(i) == SpokenWords[WordsBefore(tm_segs, i + 1)]

\* the share taken from both sides of the pause between segment i and the next
PauseShare(i) ==
    RMin(R(1, 10), RDiv(RSub(FirstWord(i + 1).start, LastWord(i).end), RInt(2)))

AlignedResult == tm_pc = "resolved" /\ tm_strategy = "aligned"

\* C19 as stated: every segment of the aligned strategy starts at the aligner's
\* start of its first word, ends at the aligner's end of its last word, and
\* has duration = end - start.
C19_SegmentsSpanTheirWords ==
    AlignedResult =>
        \A i \in 1..Len(tm_segs) :
            /\ tm_segs[i].start = FirstWord(i).start
            /\ tm_segs[i].end = LastWord(i).end
            /\ tm_segs[i].duration = RSub(tm_segs[i].end, tm_segs[i].start)

\* C19 amended: the first segment starts at the aligner's start of its first
\* word and the last segment ends at the aligner's end of its last word;
\* between two segments each side gives up min(0.1, pause / 2), so the earlier
\* one ends that much before its last word's end and the later one starts
\* that much after its first word's start; duration = end - start.
C19_SegmentsSpanWordsLessPause ==
    AlignedResult =>
        \A i \in 1..Len(tm_segs) :
            /\ tm_segs[i].start =
                  IF i = 1 THEN FirstWord(i).start
                  ELSE RAdd(FirstWord(i).start, PauseShare(i - 1))
            /\ tm_segs[i].end =
                  IF i = Len(tm_segs) THEN LastWord(i).end
                  ELSE RSub(LastWord(i).end, PauseShare(i))
            /\ tm_segs[i].duration = RSub(tm_segs[i].end, tm_segs[i].start)

\* three segments, the middle one of which lost 0.1 at its start
\* and nothing at its end, the next word following at once
C19_Witness ==
    /\ AlignedResult
    /\ Len(tm_segs) = 3
    /\ tm_segs[2].start = RAdd(FirstWord(2).start, R(1, 10))
    /\ tm_segs[2].end = LastWord(2).end

----------------------------------------------------------------------------
(* The duration field after the Timing Smoother (_adjust_timing_gaps,      *)
(* lines 1183-1208), checked under SpecSm                                  *)

\* C20: after the Timing Smoother returns, every segment of its output has
\* duration = end - start, the segments whose end was moved while the next
\* segment was processed included.
C20_SmoothedDurationIsEndMinusStart ==
    sm_passes >= 1 =>
        \A i \in 1..Len(sm_segs) :
            sm_segs[i].duration = RSub(sm_segs[i].end, sm_segs[i].start)

----------------------------------------------------------------------------
(* The gaps left by the Timing Smoother (_adjust_timing_gaps, lines        *)
(* 1183-1197), under SpecSm                                                *)

\* C21: in the output of the Timing Smoother no adjacent pair of segments
\* overlaps (next start - previous end >= 0) and no gap exceeds 0.3 s, for
\* any ordered input list.
C21_SmoothedGapsWithinThreshold ==
    sm_passes >= 1 =>
        \A i \in 1..(Len(sm_segs) - 1) :
            RLe(Zero, Gap(sm_segs, i)) /\ RLe(Gap(sm_segs, i), R(3, 10))

\* C22: in the output of the Timing Smoother every segment lasts at least
\* 1.5 s, by its duration field and from its start to its end; a segment
\* extended to the minimum is not cut short again when its successor is
\* processed.
C22_SmoothedSegmentsLastMinimum ==
    sm_passes >= 1 =>
        \A i \in 1..Len(sm_segs) :
            /\ RLe(R(3, 2), sm_segs[i].duration)
            /\ RLe(R(3, 2), RSub(sm_segs[i].end, sm_segs[i].start))

----------------------------------------------------------------------------
(* The subtitle loop of the Overlay Compositor (create_text_clip, lines    *)
(* 166-225, called from generate_video, lines 588-598) on bounded lists    *)
(* of timing dicts                                                         *)

MaxOverlaySegs == 2

OverlayTexts == {<<>>, <<" ">>, <<"a">>}
OverlayStarts == {Zero, R(1, 1)}
OverlaySpans == {R(1, 2), R(3, 2)}

InitTc ==
    /\ \E n \in 0..MaxOverlaySegs :
          \E ts \in [1..n -> OverlayTexts], ss \in [1..n -> OverlayStarts],
             ds \in [1..n -> OverlaySpans] :
              tc_timings = [i \in 1..n |-> Seg(ts[i], ss[i], RAdd(ss[i], ds[i]), ds[i])]
    /\ tc_made = <<>>
    /\ tc_text_clips = <<>>
    /\ tc_pc = "input"
    /\ OnlyTc

\* for timing in phrase_timings: clip = self.create_text_clip(...); if clip: append.
\* failing: the timings for which building the clip raises inside create_text_clip
SubtitleLoop ==
    /\ tc_pc = "input"
    /\ \E failing \in SUBSET (1..Len(tc_timings)) :
          /\ tc_made' = [i \in 1..Len(tc_timings) |->
                            create_text_clip(tc_timings[i].word, tc_timings[i].start,
                                             tc_timings[i].duration, i \notin failing)]
          /\ tc_text_clips' = SubtitleClips(tc_timings, failing, 1)
    /\ tc_pc' = "built"
    /\ UNCHANGED <<tc_timings, notTc>>

NextTc == SubtitleLoop

SpecTc == InitTc /\ [][NextTc]_vars

\* C23: a timing whose text is empty or only whitespace produces no subtitle
\* overlay; every other timing produces at most one overlay, which starts at
\* the timing's start and lasts the timing's duration.
C23_BlankTextNoOverlay ==
    tc_pc = "built" =>
        \A i \in 1..Len(tc_timings) :
            IF Strip(tc_timings[i].word) = <<>>
            THEN tc_made[i] = <<>>
            ELSE /\ Len(tc_made[i]) <= 1
                 /\ \A k \in 1..Len(tc_made[i]) :
                       /\ tc_made[i][k].start = tc_timings[i].start
                       /\ tc_made[i][k].duration = tc_timings[i].duration

----------------------------------------------------------------------------
(* The order of the steps of generate_video (lines 532-657)                *)

\* the steps in the order the source runs them: audio duration (532-541),
\* timings (543-549), background (551-573), overlays (575-608), temporary
\* audio (610-623), encoder (627-636), thumbnail (645-652), return (654)
PipelineOrder ==
    <<"idle", "timing", "background", "overlays", "temp_audio", "encoding", "thumbnail",
      "done">>

\* what the Timing Resolver returns for the request
ResolvedTimings ==
    LET aligned == get_speech_to_text_segments(rd_words, rd_aligner_ok)
    IN  IF aligned = <<>> THEN get_precise_word_timings(rd_audio, rd_script, rd_load_ok)
        ELSE aligned

\* C24: every step of a render moves to the next step of: audio duration,
\* Timing Resolver and Timing Smoother, Visual Timeline Builder, Overlay
\* Compositor, encoder, thumbnail (or to the failure exit); the subtitle
\* overlays are built from the segments the Timing Smoother returned for the
\* resolver's list, and the thumbnail step starts only once every frame is
\* encoded.
C24_PipelineOrderWithSmoother ==
    [][/\ \/ rd_pc' = rd_pc
          \/ rd_pc' = "failed" /\ rd_pc \notin {"done", "failed"}
          \/ \E k \in 1..7 : rd_pc = PipelineOrder[k] /\ rd_pc' = PipelineOrder[k + 1]
       /\ (rd_pc = "overlays" /\ rd_pc' = "temp_audio") =>
             /\ rd_timings = _adjust_timing_gaps(ResolvedTimings)
             /\ SubtitlesOf(rd_text_clips') # {} => rd_timings # <<>>
       /\ rd_pc' = "thumbnail" => rd_frame' = rd_total]_vars

----------------------------------------------------------------------------
(* Conservation of the aligner's words (get_speech_to_text_segments, lines *)
(* 419-486): word lists that hold empty words and bare punctuation marks   *)

MaxKeptWords == 4

\* a word, a word ending a sentence, a punctuation mark on its own, a blank
KeptWordTexts == {<<"a">>, <<"b", ".">>, <<".">>, <<" ">>}

InitWords ==
    /\ tm_aligner_ok = TRUE
    /\ \E n \in 0..MaxKeptWords : \E ws \in [1..n -> KeptWordTexts] :
          tm_words = TimedWords(n, ws)
    /\ tm_script = <<"a", ".", "a">>
    /\ tm_audio = RInt(MaxKeptWords + 1)
    /\ tm_load_ok = TRUE
    /\ tm_segs = <<>>
    /\ tm_strategy = "none"
    /\ tm_pc = "input"
    /\ OnlyTm

NextWords == AlignedTimings \/ ScriptTimings

SpecWords == InitWords /\ [][NextWords]_vars

\* the aligner's words as the loop appends them: stripped, the empty ones skipped
KeptWords == [i \in 1..Len(SpokenWords) |-> Strip(SpokenWords[i].word)]

\* the words of the returned segments, read in segment order
ReturnedWords == Concat([i \in 1..Len(tm_segs) |-> WordsOf(tm_segs[i])])

\* the texts of the returned segments, one after the other
ReturnedText == Concat([i \in 1..Len(tm_segs) |-> tm_segs[i].word])

\* C25 as stated: the words of the returned segments, in segment order, are
\* exactly the aligner's non-empty words in their order, and no returned
\* segment is empty.
C25_WordsConserved ==
    tm_strategy = "aligned" =>
        /\ ReturnedWords = KeptWords
        /\ \A i \in 1..Len(tm_segs) : tm_segs[i].word # <<>>

\* C25 amended: the returned texts hold the characters of the aligner's
\* non-empty words in their order, nothing lost or repeated; inside a segment
\* the words are separated by one space, except that no space is left before a
\* word starting with a punctuation mark, which is thereby joined to the word
\* before it; when no word starts with a punctuation mark the words are the
\* aligner's, one for one; no returned segment is empty.
C25_CharactersConserved ==
    tm_strategy = "aligned" =>
        /\ RemoveWs(ReturnedText) = Concat(KeptWords)
        /\ (\A k \in 1..Len(KeptWords) : KeptWords[k][1] \notin Punct) =>
              ReturnedWords = KeptWords
        /\ \A i \in 1..Len(tm_segs) :
              LET t == tm_segs[i].word
              IN  /\ t # <<>>
                  /\ t = JoinSp(WordsOf(tm_segs[i]))
                  /\ \A k \in 2..Len(t) : t[k] \in Punct => t[k - 1] # Space

\* a segment in which a punctuation mark of its own was joined to the word
\* before it, after a blank word was skipped
C25_Witness ==
    /\ tm_strategy = "aligned"
    /\ Len(SpokenWords) < Len(tm_words)
    /\ Len(ReturnedWords) < Len(KeptWords)
    /\ \E i \in 1..Len(tm_segs) : tm_segs[i].word = <<"a", ".">>

----------------------------------------------------------------------------
(* The frames of an effect clip (_apply_random_transitions, lines 227-343) *)

\* int(x): truncation toward zero
IntOf(x) == IF x[1] >= 0 THEN x[1] \div x[2] ELSE -((-x[1]) \div x[2])

\* ease_in_out(t), lines 232-234
ease_in_out(t, duration) ==
    LET u == RMax(Zero, RMin(RInt(1), RDiv(t, duration)))
    IN  RMul(RMul(u, u), RSub(RInt(3), RMul(RInt(2), u)))

ZOOM == R(3, 20)                    \* 0.15
PAN == R(1, 10)                     \* clip.w * 0.1

\* effect['transform'](t), lines 237-288
transform(name, t, duration, w) ==
    LET e == ease_in_out(t, duration)
    IN  CASE name = "static" ->
               [scale |-> RInt(1), pos_x |-> Zero, pos_y |-> Zero, needs_resize |-> FALSE]
          [] name = "zoom_in" ->
               [scale |-> RAdd(RInt(1), RMul(ZOOM, e)), pos_x |-> Zero, pos_y |-> Zero,
                needs_resize |-> TRUE]
          [] name = "zoom_out" ->
               [scale |-> RSub(RAdd(RInt(1), ZOOM), RMul(ZOOM, e)), pos_x |-> Zero,
                pos_y |-> Zero, needs_resize |-> TRUE]
          [] name = "pan_right" ->
               [scale |-> RInt(1), pos_x |-> RSub(Zero, RMul(RMul(RInt(w), PAN), e)),
                pos_y |-> Zero, needs_resize |-> FALSE]
          [] name = "pan_left" ->
               [scale |-> RInt(1), pos_x |-> RMul(RMul(RInt(w), PAN), e),
                pos_y |-> Zero, needs_resize |-> FALSE]

Max2(a, b) == IF a >= b THEN a ELSE b
Min2(a, b) == IF a <= b THEN a ELSE b

\* make_frame(t), lines 294-335: the size of the image the frame is cut from and
\* the box handed to img.crop; the frame has the size of the box
make_frame(name, t, duration, w, h) ==
    LET params == transform(name, t, duration, w)
        new_w == IF params.needs_resize THEN IntOf(RMul(RInt(w), params.scale)) ELSE w
        new_h == IF params.needs_resize THEN IntOf(RMul(RInt(h), params.scale)) ELSE h
        x1a == (IF params.needs_resize THEN (new_w - w) \div 2 ELSE 0) + IntOf(params.pos_x)
        y1a == (IF params.needs_resize THEN (new_h - h) \div 2 ELSE 0) + IntOf(params.pos_y)
        x1 == IF params.needs_resize THEN Max2(0, Min2(x1a, new_w - w))
              ELSE Max2(0, Min2(x1a, w))
        y1 == IF params.needs_resize THEN Max2(0, Min2(y1a, new_h - h))
              ELSE Max2(0, Min2(y1a, h))
        x2 == Min2(new_w, x1 + w)
        y2 == Min2(new_h, y1 + h)
    IN  IF params.scale = RInt(1) /\ params.pos_x = Zero /\ ~params.needs_resize
        THEN [image |-> <<w, h>>, box |-> <<0, 0, w, h>>]
        ELSE [image |-> <<new_w, new_h>>, box |-> <<x1, y1, x2, y2>>]

\* make_frame is called at t = k * duration / FrameSamples, k in 0..FrameSamples
FrameSamples == 4
ClipDurations == {RInt(2), RInt(5)}

InitFx ==
    /\ fx_effect \in EffectNames
    /\ fx_size \in {FrameSize("shorts"), FrameSize("normal")}
    /\ fx_duration \in ClipDurations
    /\ \E k \in 0..FrameSamples : fx_t = RDiv(RMul(RInt(k), fx_duration), RInt(FrameSamples))
    /\ fx_frame = <<>>
    /\ fx_pc = "input"
    /\ OnlyFx

MakeFrame ==
    /\ fx_pc = "input"
    /\ fx_frame' = make_frame(fx_effect, fx_t, fx_duration, fx_size[1], fx_size[2])
    /\ fx_pc' = "made"
    /\ UNCHANGED <<fx_effect, fx_size, fx_duration, fx_t, notFx>>

NextFx == MakeFrame

SpecFx == InitFx /\ [][NextFx]_vars

\* C26: for every effect and every time in [0, duration] the crop box lies
\* inside the (zoomed) image and has the source clip's width and height, so
\* the frame has the target frame dimensions.
C26_FramesKeepTargetSize ==
    fx_pc = "made" =>
        LET b == fx_frame.box
        IN  /\ 0 <= b[1] /\ b[1] <= b[3] /\ b[3] <= fx_frame.image[1]
            /\ 0 <= b[2] /\ b[2] <= b[4] /\ b[4] <= fx_frame.image[2]
            /\ b[3] - b[1] = fx_size[1]
            /\ b[4] - b[2] = fx_size[2]

----------------------------------------------------------------------------
(* Requests of /api/generate: generate (app.py lines 56-113) creates the   *)
(* request and starts a thread running generate_content_video (lines       *)
(* 376-575), which reports to the RequestTracker (request_tracker.py).      *)

MaxTracked == 3
TrackedRequests == 1..MaxTracked

\* None, where a string is expected and where a number is expected
None == "None"
NoProgress == -1

\* the entry of a request id the tracker does not hold yet
NoRequest == [status |-> "absent", progress |-> 0, result |-> None, error |-> None]

\* RequestTracker.create_request, lines 34-49
create_request == [status |-> "PENDING", progress |-> 0, result |-> None, error |-> None]

\* an update that writes every argument, None included
update_request_overwriting(data, status, progress, result, error) ==
    [status |-> IF status # None THEN status ELSE data.status,
     progress |-> IF progress # NoProgress THEN progress ELSE 0,
     result |-> result,
     error |-> error]

\* RequestTracker.update_request, lines 61-87: an argument left None keeps the field
update_request(data, status, progress, result, error) ==
    [status |-> IF status # None THEN status ELSE data.status,
     progress |-> IF progress # NoProgress THEN progress ELSE data.progress,
     result |-> IF result # None THEN result ELSE data.result,
     error |-> IF error # None THEN error ELSE data.error]

\* def generate_prompts_with_openai(self, script): one argument besides self
PROMPTS_PARAMETERS == 1
\* video_generator.generate_prompts_with_openai(content['script'], api_keys)
PROMPTS_ARGUMENTS == 2

InitRq ==
    /\ rq_pc = [r \in TrackedRequests |-> "none"]
    /\ rq_data = [r \in TrackedRequests |-> NoRequest]
    /\ rq_collab = [r \in TrackedRequests |-> FALSE]
    /\ OnlyRq

\* except Exception as e: update_request(status=FAILED, error=str(e)), lines 570-575
Failed(r, e) ==
    /\ rq_data' = [rq_data EXCEPT ![r] = update_request(@, "FAILED", NoProgress, None, e)]
    /\ rq_pc' = [rq_pc EXCEPT ![r] = "ended"]

\* generate, lines 57-103: the request is created and its thread started
Generate(r) ==
    /\ rq_pc[r] = "none"
    /\ rq_data' = [rq_data EXCEPT ![r] = create_request]
    /\ rq_pc' = [rq_pc EXCEPT ![r] = "setup"]
    /\ UNCHANGED <<rq_collab, notRq>>

\* lines 386-405: formats, the request's directories, GENERATING_CONTENT at 10
SetUp(r) ==
    /\ rq_pc[r] = "setup"
    /\ \E dirs_ok \in BOOLEAN :
         IF dirs_ok
         THEN /\ rq_data' = [rq_data EXCEPT
                               ![r] = update_request(@, "GENERATING_CONTENT", 10, None, None)]
              /\ rq_pc' = [rq_pc EXCEPT ![r] = "content"]
              /\ UNCHANGED rq_collab
         ELSE /\ Failed(r, "OSError")
              /\ rq_collab' = [rq_collab EXCEPT ![r] = TRUE]
    /\ UNCHANGED notRq

\* line 408: content = await content_generator.generate_content(...)
GenerateContent(r) ==
    /\ rq_pc[r] = "content"
    /\ \E content_ok \in BOOLEAN :
         IF content_ok
         THEN /\ rq_pc' = [rq_pc EXCEPT ![r] = "tasks"]
              /\ UNCHANGED <<rq_data, rq_collab>>
         ELSE /\ Failed(r, "content")
              /\ rq_collab' = [rq_collab EXCEPT ![r] = TRUE]
    /\ UNCHANGED notRq

\* lines 415-434: the two coroutines are created; the call of
\* generate_prompts_with_openai binds its arguments at once and raises
\* TypeError when there are more of them than parameters.  Otherwise
\* GENERATING_AUDIO at 30 and the gather of line 437 follow.
CreateTasks(r) ==
    /\ rq_pc[r] = "tasks"
    /\ IF PROMPTS_ARGUMENTS > PROMPTS_PARAMETERS
       THEN Failed(r, "TypeError")
       ELSE /\ rq_data' = [rq_data EXCEPT
                             ![r] = update_request(@, "GENERATING_AUDIO", 30, None, None)]
            /\ rq_pc' = [rq_pc EXCEPT ![r] = "gather"]
    /\ UNCHANGED <<rq_collab, notRq>>

NextRq == \E r \in TrackedRequests : Generate(r) \/ SetUp(r) \/ GenerateContent(r) \/ CreateTasks(r)

SpecRq == InitRq /\ [][NextRq]_vars

\* C27: a request whose thread has ended and none of whose collaborators
\* failed is COMPLETED at progress 100 with a result (video and thumbnail); a
\* request is FAILED only when one of its collaborators failed.
C27_SucceedingCollaboratorsComplete ==
    \A r \in TrackedRequests :
        /\ (rq_pc[r] = "ended" /\ ~rq_collab[r]) =>
              /\ rq_data[r].status = "COMPLETED"
              /\ rq_data[r].progress = 100
              /\ rq_data[r].result # None
        /\ (rq_pc[r] # "none" /\ rq_data[r].status = "FAILED") => rq_collab[r]

\* RequestStatus in the order generate_content_video sets it
StatusOrder ==
    <<"PENDING", "GENERATING_CONTENT", "GENERATING_AUDIO", "GENERATING_IMAGES",
      "GENERATING_VIDEO", "COMPLETED">>

StatusRank(status) == CHOOSE k \in 1..Len(StatusOrder) : StatusOrder[k] = status

\* C28: in every step the status of a tracked request stays or moves forward
\* along PENDING, GENERATING_CONTENT, GENERATING_AUDIO, GENERATING_IMAGES,
\* GENERATING_VIDEO, COMPLETED, or becomes FAILED from a status that is not
\* terminal; its progress never decreases and stays within 0..100; once the
\* status is COMPLETED or FAILED, status, progress, result and error never
\* change.
C28_StatusAndProgressMonotone ==
    [][\A r \in TrackedRequests :
          LET a == rq_data[r]
              b == rq_data'[r]
          IN  rq_pc[r] # "none" =>
                /\ b.progress \in 0..100
                /\ a.progress <= b.progress
                /\ IF a.status \in {"COMPLETED", "FAILED"}
                   THEN b = a
                   ELSE \/ b.status = "FAILED"
                        \/ /\ b.status \in {StatusOrder[k] : k \in 1..Len(StatusOrder)}
                           /\ StatusRank(a.status) <= StatusRank(b.status)]_vars

\* one request failed at progress 10 after GENERATING_CONTENT and keeps its
\* entry while another request is still at work
C28_Witness ==
    \E r, q \in TrackedRequests :
        /\ rq_pc[r] = "ended"
        /\ rq_data[r] = [status |-> "FAILED", progress |-> 10, result |-> None,
                         error |-> "TypeError"]
        /\ rq_pc[q] = "content"
        /\ rq_data[q].status = "GENERATING_CONTENT"

----------------------------------------------------------------------------
(* Rate limiting of the image API (ImageHandler.generate_image, lines      *)
(* 80-111, run in batches by generate_background_images, lines 201-217).   *)
(* The tasks of a batch run on one event loop: a task runs until it awaits *)
(* (asyncio.sleep) or returns; images.generate is a blocking call.         *)

RATE_LIMIT_DELAY == 10
BATCH_SIZE == 3
MaxPrompts == 4

\* how long a call of images.generate takes, seconds
CallDurations == {1, 3}

Slots == 1..BATCH_SIZE

IdleTask == [pc |-> "idle", wake |-> 0]

InitIh ==
    /\ ih_clock = RATE_LIMIT_DELAY
    /\ ih_last = 0
    /\ ih_task = [t \in Slots |-> IdleTask]
    /\ ih_left \in 1..MaxPrompts
    /\ ih_calls = <<>>
    /\ OnlyIh

\* lines 203-217: the next batch of tasks is created and gathered, once the
\* batch before it has returned
StartBatch ==
    /\ ih_left > 0
    /\ \A t \in Slots : ih_task[t].pc \in {"idle", "returned"}
    /\ ih_task' = [t \in Slots |->
                     IF t <= ih_left THEN [pc |-> "ready", wake |-> 0] ELSE IdleTask]
    /\ ih_left' = IF ih_left > BATCH_SIZE THEN ih_left - BATCH_SIZE ELSE 0
    /\ UNCHANGED <<ih_clock, ih_last, ih_calls, notIh>>

\* lines 98-111: the blocking call; last_request_time is set when it returns a
\* response, and left alone when it raises
CallApi(t) ==
    \E d \in CallDurations, api_ok \in BOOLEAN :
        /\ ih_calls' = Append(ih_calls, [start |-> ih_clock, end |-> ih_clock + d])
        /\ ih_clock' = ih_clock + d
        /\ ih_last' = IF api_ok THEN ih_clock + d ELSE ih_last
        /\ ih_task' = [ih_task EXCEPT ![t] = [pc |-> "returned", wake |-> 0]]

\* lines 80-85: the task takes the semaphore and reads the clock; it sleeps
\* for the rest of the delay, or calls the API at once
CheckRate(t) ==
    /\ ih_task[t].pc = "ready"
    /\ IF ih_clock - ih_last < RATE_LIMIT_DELAY
       THEN /\ ih_task' = [ih_task EXCEPT
                             ![t] = [pc |-> "sleeping",
                                     wake |-> ih_clock
                                              + (RATE_LIMIT_DELAY - (ih_clock - ih_last))]]
            /\ UNCHANGED <<ih_clock, ih_last, ih_calls>>
       ELSE CallApi(t)
    /\ UNCHANGED <<ih_left, notIh>>

\* the sleep of line 85 is over: the task goes on to the call of line 98
WakeUp(t) ==
    /\ ih_task[t].pc = "sleeping"
    /\ ih_task[t].wake <= ih_clock
    /\ CallApi(t)
    /\ UNCHANGED <<ih_left, notIh>>

\* every task of the batch sleeps: time passes until the first of them wakes
Sleep ==
    /\ \E t \in Slots : ih_task[t].pc = "sleeping"
    /\ \A t \in Slots : ih_task[t].pc # "ready"
    /\ \A t \in Slots : ih_task[t].pc = "sleeping" => ih_task[t].wake > ih_clock
    /\ ih_clock' = CHOOSE w \in {ih_task[t].wake : t \in {u \in Slots : ih_task[u].pc = "sleeping"}} :
                       \A t \in Slots : ih_task[t].pc = "sleeping" => w <= ih_task[t].wake
    /\ UNCHANGED <<ih_last, ih_task, ih_left, ih_calls, notIh>>

NextIh == StartBatch \/ Sleep \/ \E t \in Slots : CheckRate(t) \/ WakeUp(t)

SpecIh == InitIh /\ [][NextIh]_vars

\* C29: in every interleaving of the generate_image tasks, every call of the
\* image API starts at least RATE_LIMIT_DELAY (10 s) after the call before it
\* completed.
C29_CallsKeepRateLimit ==
    \A i \in 2..Len(ih_calls) : ih_calls[i].start - ih_calls[i - 1].end >= 10

----------------------------------------------------------------------------
(* download_file (app.py lines 292-374) and get_request_directory (lines   *)
(* 241-290).  A path is the sequence of its components, a component the    *)
(* sequence of its characters.                                             *)

MaxDepth == 3

\* content_type_map, lines 298-304
content_type_map ==
    [video |-> <<"v", "i", "d", "e", "o">>, audio |-> <<"a", "u", "d", "i", "o">>, script |-> <<"s", "c", "r", "i", "p", "t">>,
     thumbnail |-> <<"v", "i", "d", "e", "o">>, image |-> <<"i", "m", "a", "g", "e", "s">>]

ContentTypes == DOMAIN content_type_map \cup {"other"}
RequestIds == {<<"r", "1">>, <<"r", "1", "0">>}
Up == <<".", ".">>
FileParts == {Up, <<"x">>, <<"v", "i", "d", "e", "o", "2">>, <<"r", "1", "0">>, <<"v", "i", "d", "e", "o">>}

THUMBNAIL_SUFFIX == <<"_", "t", "h", "u", "m", "b", "n", "a", "i", "l", ".", "j", "p", "g">>

\* get_app_data_dir() with 'contents' added, lines 254-258
ContentsDir == <<<<"a", "p", "p">>, <<"c", "o", "n", "t", "e", "n", "t", "s">>>>

\* get_request_directory(request_id, content_type), lines 262-264
get_request_directory(request_id, content_type) ==
    ContentsDir \o <<request_id, content_type>>

\* os.path.abspath: a component ".." removes the component before it
RECURSIVE AbsPath(_, _)
AbsPath(done, rest) ==
    IF rest = <<>> THEN done
    ELSE IF Head(rest) = Up
         THEN AbsPath(IF done = <<>> THEN <<>> ELSE SubSeq(done, 1, Len(done) - 1), Tail(rest))
         ELSE AbsPath(Append(done, Head(rest)), Tail(rest))

\* the path as the string the source compares: "/" before every component
RECURSIVE PathString(_)
PathString(path) ==
    IF path = <<>> THEN <<>> ELSE <<"/">> \o Head(path) \o PathString(Tail(path))

\* str.startswith
StartsWith(str, prefix) ==
    Len(prefix) <= Len(str) /\ SubSeq(str, 1, Len(prefix)) = prefix

\* os.path.splitext(filename)[0]: the last component loses what follows its
\* last dot, unless only dots come before that dot
SplitExtBase(filename) ==
    LET name == filename[Len(filename)]
        dots == {k \in 2..Len(name) :
                    name[k] = "." /\ \E j \in 1..(k - 1) : name[j] # "."}
        cut == IF dots = {} THEN Len(name)
               ELSE (CHOOSE k \in dots : \A m \in dots : m <= k) - 1
    IN  [filename EXCEPT ![Len(filename)] = SubSeq(name, 1, cut)]

\* download_file, lines 306-374: the response as <<code>> or <<200, path sent>>;
\* exists tells whether the resolved path is a readable regular file
download_file(request_id, content_type, filename, exists) ==
    IF content_type \notin DOMAIN content_type_map THEN <<400>>
    ELSE LET directory == get_request_directory(request_id, content_type_map[content_type])
             name == IF content_type = "thumbnail"
                     THEN LET base == SplitExtBase(filename)
                          IN  [base EXCEPT ![Len(base)] = @ \o THUMBNAIL_SUFFIX]
                     ELSE filename
             abs_file_path == AbsPath(<<>>, directory \o name)
             abs_directory == AbsPath(<<>>, directory)
         IN  IF abs_file_path = abs_directory
             THEN <<500>>  \* the directory itself: it exists, send_file raises
             ELSE IF ~exists THEN <<404>>
             ELSE IF ~StartsWith(PathString(abs_file_path), PathString(abs_directory))
                  THEN <<403>>
                  ELSE <<200, abs_file_path>>

InitDl ==
    /\ dl_request_id \in RequestIds
    /\ dl_content_type \in ContentTypes
    /\ \E n \in 1..MaxDepth : dl_filename \in [1..n -> FileParts]
    /\ dl_exists \in BOOLEAN
    /\ dl_response = <<>>
    /\ OnlyDl

DownloadFile ==
    /\ dl_response = <<>>
    /\ dl_response' = download_file(dl_request_id, dl_content_type, dl_filename, dl_exists)
    /\ UNCHANGED <<dl_request_id, dl_content_type, dl_filename, dl_exists, notDl>>

NextDl == DownloadFile

SpecDl == InitDl /\ [][NextDl]_vars

\* the file lies in the directory or below it
Inside(path, directory) ==
    Len(path) > Len(directory) /\ SubSeq(path, 1, Len(directory)) = directory

\* C30: download_file sends a file only when its resolved absolute path lies
\* inside the directory of the request id and content type of the URL,
\* whatever the filename: with parent-directory components, or resolving into
\* a sibling directory whose name starts with the directory's name.
C30_OnlyFilesInsideRequestDirectory ==
    (dl_response # <<>> /\ dl_response[1] = 200) =>
        Inside(dl_response[2],
               get_request_directory(dl_request_id, content_type_map[dl_content_type]))

====
